---- MODULE Spec2Model ----
(***************************************************************************)
(* A model of phie, an emulator of the phi-calculus: the surface syntax of *)
(* Loc, Basket and Object (src/src/loc.rs, basket.rs, object.rs) and the   *)
(* dataization engine.                                                     *)
(*                                                                         *)
(* A text (a Rust str) is a sequence of characters.  A character is a      *)
(* short string: an ASCII character stands for itself, a non-ASCII one has *)
(* a name ("nu" is U+03BD, "|->" is U+21A6, ...).  CodePoint gives each    *)
(* character its Unicode scalar value and Utf8 its encoding, so that the   *)
(* byte length str::len() and the byte order of String's Ord are computed  *)
(* as the program computes them.                                           *)
(***************************************************************************)
EXTENDS Integers, Sequences, FiniteSets, TLC

VARIABLES
    \* One run of Loc's parse and print: the step reached, the text, the
    \* parsed Loc, its printed form and the Loc parsed from that.
    lpc, ltext, lres, lprinted, lres2,
    \* One run of Basket's print and parse: the step reached, the basket, its
    \* printed text, the result of parsing the text and that result printed.
    bpc, basket, btext, bres, btext2,
    \* One run of Object's print and parse: the step reached, where the text
    \* comes from (an object built with the public operations, or entries
    \* written in the source syntax), the object, the written entries and
    \* constant mark, the text, the result of parsing it and that result
    \* printed.
    opc, osrc, object, oentries, obang, otext, ores, otext2,
    \* One run of the engine: the step reached, the table of objects, the
    \* options, the arena of baskets, the tick count, the slot marked as the
    \* next progress target, the ticks without progress in a row, the last
    \* snapshot logged and what dataize() returns.
    epc, objects, opts, baskets, cycles, target, idle, elog, eres

locVars == <<lpc, ltext, lres, lprinted, lres2>>
basketVars == <<bpc, basket, btext, bres, btext2>>
objectVars == <<opc, osrc, object, oentries, obang, otext, ores, otext2>>

emuVars == <<epc, objects, opts, baskets, cycles, target, idle, elog, eres>>

vars == <<locVars, basketVars, objectVars, emuVars>>

-----------------------------------------------------------------------------
(* Bounds of the model.                                                    *)

\* The longest run of decimal digits in a generated Loc text.
MaxDigits == 3

\* The most kids put into a basket.
MaxKids == 2

\* The most attributes pushed into an object.
MaxAttrs == 2

\* The most entries written into an object text.
MaxEntries == 2

\* The tick count StopWhenTooManyCycles allows.
MaxCycles == 120

-----------------------------------------------------------------------------
(* Characters and UTF-8.                                                   *)

\* The printable ASCII characters in code-point order, from U+0020 (the
\* quotation mark, the backslash and the grave accent by name).
AsciiTable ==
    << " ", "!", "dquote", "#", "$", "%", "&", "'", "(", ")", "*", "+", ",", "-", ".", "/",
       "0", "1", "2", "3", "4", "5", "6", "7", "8", "9", ":", ";", "<", "=", ">", "?",
       "@", "A", "B", "C", "D", "E", "F", "G", "H", "I", "J", "K", "L", "M", "N", "O",
       "P", "Q", "R", "S", "T", "U", "V", "W", "X", "Y", "Z", "[", "bslash", "]", "^", "_",
       "grave", "a", "b", "c", "d", "e", "f", "g", "h", "i", "j", "k", "l", "m", "n", "o",
       "p", "q", "r", "s", "t", "u", "v", "w", "x", "y", "z", "{", "|", "}", "~" >>

AsciiChars == { AsciiTable[i] : i \in 1..Len(AsciiTable) }

\* The non-ASCII characters of the surface syntax, by name.
SymbolChars ==
    { "Delta", "Phi", "beta", "lambda", "nu", "xi", "rho", "sigma",
      "->", "|->", "->>", "->>>", "{}", "skull", "[[", "]]", "alpha", "pi", "phi" }

Chars == AsciiChars \cup SymbolChars

\* The Unicode scalar value of each character.
CodePoint ==
    [ c \in Chars |->
        CASE c = "Delta"  -> 916       \* U+0394
          [] c = "Phi"    -> 934       \* U+03A6
          [] c = "beta"   -> 946       \* U+03B2
          [] c = "lambda" -> 955       \* U+03BB
          [] c = "nu"     -> 957       \* U+03BD
          [] c = "xi"     -> 958       \* U+03BE
          [] c = "rho"    -> 961       \* U+03C1
          [] c = "sigma"  -> 963       \* U+03C3
          [] c = "->"     -> 8594      \* U+2192
          [] c = "|->"    -> 8614      \* U+21A6
          [] c = "->>"    -> 8649      \* U+21C9
          [] c = "->>>"   -> 8694      \* U+21F6
          [] c = "{}"     -> 8709      \* U+2205
          [] c = "skull"  -> 9760      \* U+2620
          [] c = "[["     -> 10214     \* U+27E6
          [] c = "]]"     -> 10215     \* U+27E7
          [] c = "alpha"  -> 120508    \* U+1D6FC
          [] c = "pi"     -> 120523    \* U+1D70B
          [] c = "phi"    -> 120529    \* U+1D711
          [] OTHER        -> 31 + (CHOOSE i \in 1..Len(AsciiTable) : AsciiTable[i] = c) ]

\* The UTF-8 encoding of a scalar value.
Utf8Encode(cp) ==
    IF cp < 128 THEN << cp >>
    ELSE IF cp < 2048 THEN << 192 + (cp \div 64), 128 + (cp % 64) >>
    ELSE IF cp < 65536 THEN
        << 224 + (cp \div 4096), 128 + ((cp \div 64) % 64), 128 + (cp % 64) >>
    ELSE << 240 + (cp \div 262144), 128 + ((cp \div 4096) % 64),
            128 + ((cp \div 64) % 64), 128 + (cp % 64) >>

Utf8 == [ c \in Chars |-> Utf8Encode(CodePoint[c]) ]

RECURSIVE Bytes(_)
\* The bytes of a text.
Bytes(s) == IF s = << >> THEN << >> ELSE Utf8[Head(s)] \o Bytes(Tail(s))

\* str::len(): the length in bytes.
ByteLen(s) == Len(Bytes(s))

RECURSIVE SeqLess(_, _)
\* Lexicographic order of two sequences of numbers.
SeqLess(a, b) ==
    IF b = << >> THEN FALSE
    ELSE IF a = << >> THEN TRUE
    ELSE IF Head(a) # Head(b) THEN Head(a) < Head(b)
    ELSE SeqLess(Tail(a), Tail(b))

\* String's Ord: the texts compared byte by byte.
StrLess(s, t) == SeqLess(Bytes(s), Bytes(t))

-----------------------------------------------------------------------------
(* Texts.                                                                  *)

\* Iterator::skip(n) over chars(), collected.
Skip(s, n) == IF n >= Len(s) THEN << >> ELSE SubSeq(s, n + 1, Len(s))

\* Iterator::take(n) over chars(), collected.
Take(s, n) == IF n >= Len(s) THEN s ELSE SubSeq(s, 1, n)

\* str::ends_with.
EndsWith(s, suffix) ==
    /\ Len(suffix) <= Len(s)
    /\ SubSeq(s, Len(s) - Len(suffix) + 1, Len(s)) = suffix

\* str::starts_with.
StartsWith(s, prefix) ==
    /\ Len(prefix) <= Len(s)
    /\ SubSeq(s, 1, Len(prefix)) = prefix

RECURSIVE Trim(_)
\* str::trim(): the white space of the alphabet is the space.
Trim(s) ==
    IF s = << >> THEN s
    ELSE IF Head(s) = " " THEN Trim(Tail(s))
    ELSE IF s[Len(s)] = " " THEN Trim(SubSeq(s, 1, Len(s) - 1))
    ELSE s

RECURSIVE Split(_, _)
\* str::split(c): the pieces between the occurrences of c, empty ones kept.
Split(s, c) ==
    IF \A i \in 1..Len(s) : s[i] # c THEN << s >>
    ELSE LET i == CHOOSE k \in 1..Len(s) :
                      s[k] = c /\ \A j \in 1..(k - 1) : s[j] # c
         IN  << SubSeq(s, 1, i - 1) >> \o Split(SubSeq(s, i + 1, Len(s)), c)

RECURSIVE Join(_, _)
\* Itertools::join.
Join(parts, sep) ==
    IF parts = << >> THEN << >>
    ELSE IF Len(parts) = 1 THEN parts[1]
    ELSE parts[1] \o sep \o Join(Tail(parts), sep)

\* The strings of a set in ascending byte order (Itertools::sorted, slice::sort).
RECURSIVE SortedStrs(_)
SortedStrs(S) ==
    IF S = {} THEN << >>
    ELSE LET m == CHOOSE x \in S : \A y \in S \ {x} : StrLess(x, y)
         IN  << m >> \o SortedStrs(S \ {m})

-----------------------------------------------------------------------------
(* Numbers in texts.                                                       *)

DecDigits == << "0", "1", "2", "3", "4", "5", "6", "7", "8", "9" >>

IsDigit(c) == \E i \in 1..10 : DecDigits[i] = c

DigitValue(c) == (CHOOSE i \in 1..10 : DecDigits[i] = c) - 1

HexUpper == << "A", "B", "C", "D", "E", "F" >>
HexLower == << "a", "b", "c", "d", "e", "f" >>

IsHexDigit(c) == IsDigit(c) \/ \E i \in 1..6 : HexUpper[i] = c \/ HexLower[i] = c

HexValue(c) ==
    IF IsDigit(c) THEN DigitValue(c)
    ELSE 9 + (CHOOSE i \in 1..6 : HexUpper[i] = c \/ HexLower[i] = c)

RECURSIVE DecStr(_)
\* Display of a non-negative integer.
DecStr(n) ==
    IF n < 10 THEN << DecDigits[n + 1] >>
    ELSE DecStr(n \div 10) \o << DecDigits[(n % 10) + 1] >>

\* Display of a signed integer ("{}").
IntStr(n) == IF n < 0 THEN << "-" >> \o DecStr(0 - n) ELSE DecStr(n)

RECURSIVE RadixValue(_, _, _)
\* The value of the digits ds in the given radix, on top of acc.
RadixValue(ds, radix, acc) ==
    IF ds = << >> THEN acc
    ELSE RadixValue(Tail(ds), radix, acc * radix + HexValue(Head(ds)))

RECURSIVE StripZeros(_)
StripZeros(ds) == IF ds # << >> /\ Head(ds) = "0" THEN StripZeros(Tail(ds)) ELSE ds

RECURSIVE DigitsLess(_, _)
\* Two digit strings of one length, compared as numbers.
DigitsLess(a, b) ==
    IF a = << >> THEN FALSE
    ELSE IF HexValue(Head(a)) # HexValue(Head(b)) THEN HexValue(Head(a)) < HexValue(Head(b))
    ELSE DigitsLess(Tail(a), Tail(b))

\* Whether the number written ds exceeds the number written limit: the
\* overflow that the checked arithmetic of from_str_radix reports.
Exceeds(ds, limit) ==
    LET d == StripZeros(ds)
    IN  \/ Len(d) > Len(limit)
        \/ Len(d) = Len(limit) /\ DigitsLess(limit, d)

\* core::num from_str_radix for an integer type whose largest value is
\* written max and whose smallest value is minus the number written min
\* (min = <<>>: an unsigned type).  An optional sign, then one digit or more.
ParseInt(s, radix, min, max) ==
    LET signed == min # << >>
        neg    == signed /\ s # << >> /\ Head(s) = "-"
        ds     == IF Len(s) > 1 /\ (Head(s) = "+" \/ neg) THEN Tail(s) ELSE s
        valid  == /\ ds # << >>
                  /\ \A i \in 1..Len(ds) :
                        IF radix = 16 THEN IsHexDigit(ds[i]) ELSE IsDigit(ds[i])
    IN  IF s = << >> THEN [ok |-> FALSE, kind |-> "empty"]
        ELSE IF ~valid THEN [ok |-> FALSE, kind |-> "invalid digit"]
        ELSE IF Exceeds(ds, IF neg THEN min ELSE max) THEN [ok |-> FALSE, kind |-> "overflow"]
        ELSE [ok |-> TRUE,
              val |-> IF neg THEN 0 - RadixValue(ds, radix, 0) ELSE RadixValue(ds, radix, 0)]

\* str::parse::<i8>().
ParseI8(s) == ParseInt(s, 10, << "1", "2", "8" >>, << "1", "2", "7" >>)

\* str::parse::<usize>() on a 64-bit target (Ob).
ParseUsize(s) ==
    ParseInt(s, 10, << >>,
             << "1", "8", "4", "4", "6", "7", "4", "4", "0", "7",
                "3", "7", "0", "9", "5", "5", "1", "6", "1", "5" >>)

\* str::parse::<isize>() on a 64-bit target (Bk).
ParseIsize(s) ==
    ParseInt(s, 10,
             << "9", "2", "2", "3", "3", "7", "2", "0", "3", "6",
                "8", "5", "4", "7", "7", "5", "8", "0", "8" >>,
             << "9", "2", "2", "3", "3", "7", "2", "0", "3", "6",
                "8", "5", "4", "7", "7", "5", "8", "0", "7" >>)

\* Data::from_str_radix(s, 16): Data is i16.
ParseData(s) == ParseInt(s, 16, << "8", "0", "0", "0" >>, << "7", "F", "F", "F" >>)

RECURSIVE HexStr(_)
\* A non-negative number in upper-case hexadecimal.
HexStr(n) ==
    LET d == n % 16
        c == IF d < 10 THEN DecDigits[d + 1] ELSE HexUpper[d - 9]
    IN  IF n < 16 THEN << c >> ELSE HexStr(n \div 16) \o << c >>

RECURSIVE ZeroPad(_, _)
ZeroPad(s, width) == IF Len(s) >= width THEN s ELSE ZeroPad(<< "0" >> \o s, width)

\* format!("{:04X}", d) of an i16: the two's complement bits of d.
DataHex(d) == ZeroPad(HexStr(IF d < 0 THEN d + 65536 ELSE d), 4)

-----------------------------------------------------------------------------
(* Loc (src/src/loc.rs).                                                   *)

Root == [tag |-> "Root"]
Rho == [tag |-> "Rho"]
Phi == [tag |-> "Phi"]
Pi == [tag |-> "Pi"]
Delta == [tag |-> "Delta"]
Sigma == [tag |-> "Sigma"]
Attr(i) == [tag |-> "Attr", n |-> i]
Obj(i) == [tag |-> "Obj", n |-> i]

\* A Display that prints the ASCII name of Rho.
LocToStringAsciiRho(loc) ==
    CASE loc.tag = "Root"  -> << "Phi" >>
      [] loc.tag = "Rho"   -> << "^" >>
      [] loc.tag = "Delta" -> << "Delta" >>
      [] loc.tag = "Phi"   -> << "phi" >>
      [] loc.tag = "Pi"    -> << "pi" >>
      [] loc.tag = "Sigma" -> << "sigma" >>
      [] loc.tag = "Attr"  -> << "alpha" >> \o IntStr(loc.n)
      [] loc.tag = "Obj"   -> << "nu" >> \o IntStr(loc.n)

\* impl fmt::Display for Loc.
LocToString(loc) ==
    CASE loc.tag = "Root"  -> << "Phi" >>
      [] loc.tag = "Rho"   -> << "rho" >>
      [] loc.tag = "Delta" -> << "Delta" >>
      [] loc.tag = "Phi"   -> << "phi" >>
      [] loc.tag = "Pi"    -> << "pi" >>
      [] loc.tag = "Sigma" -> << "sigma" >>
      [] loc.tag = "Attr"  -> << "alpha" >> \o IntStr(loc.n)
      [] loc.tag = "Obj"   -> << "nu" >> \o IntStr(loc.n)

\* The regex ^alpha?(\d+)$ : the digits it captures, or <<>> without a match.
ReArgCapture(s) ==
    LET ds == IF s # << >> /\ Head(s) = "alpha" THEN Tail(s) ELSE s
    IN  IF ds # << >> /\ \A i \in 1..Len(ds) : IsDigit(ds[i]) THEN ds ELSE << >>

\* The regex ^nu(\d+)$ : the digits it captures, or <<>> without a match.
ReObjCapture(s) ==
    LET ds == IF s # << >> /\ Head(s) = "nu" THEN Tail(s) ELSE << >>
    IN  IF ds # << >> /\ \A i \in 1..Len(ds) : IsDigit(ds[i]) THEN ds ELSE << >>

\* The width of Loc::Attr's index (i8).
AttrParse(ds) == ParseI8(ds)

\* impl FromStr for Loc.
LocFromStr(s) ==
    IF ReArgCapture(s) # << >> THEN
        LET r == AttrParse(ReArgCapture(s))
        IN  IF r.ok THEN [ok |-> TRUE, loc |-> Attr(r.val)]
            ELSE [ok |-> FALSE, err |-> "Failed to parse attr number", text |-> ReArgCapture(s)]
    ELSE IF ReObjCapture(s) # << >> THEN
        LET r == ParseUsize(ReObjCapture(s))
        IN  IF r.ok THEN [ok |-> TRUE, loc |-> Obj(r.val)]
            ELSE [ok |-> FALSE, err |-> "Failed to parse obj number", text |-> ReObjCapture(s)]
    ELSE IF s \in { << "Phi" >>, << "Q" >> } THEN [ok |-> TRUE, loc |-> Root]
    ELSE IF s \in { << "Delta" >>, << "D" >> } THEN [ok |-> TRUE, loc |-> Delta]
    ELSE IF s \in { << "pi" >>, << "P" >> } THEN [ok |-> TRUE, loc |-> Pi]
    ELSE IF s \in { << "rho" >>, << "^" >> } THEN [ok |-> TRUE, loc |-> Rho]
    ELSE IF s \in { << "phi" >>, << "@" >> } THEN [ok |-> TRUE, loc |-> Phi]
    ELSE IF s \in { << "sigma" >>, << "&" >> } THEN [ok |-> TRUE, loc |-> Sigma]
    ELSE [ok |-> FALSE, err |-> "Unknown loc", text |-> s]

-----------------------------------------------------------------------------
(* Basket and Kid (src/src/basket.rs).                                     *)

Empt == [kind |-> "Empt"]
Rqtd == [kind |-> "Rqtd"]
Need(ob, bk) == [kind |-> "Need", ob |-> ob, bk |-> bk]
Wait(bk, loc) == [kind |-> "Wait", bk |-> bk, loc |-> loc]
Dtzd(d) == [kind |-> "Dtzd", d |-> d]

\* HashMap::new(): the map with no key.
EmptyMap == [x \in {} |-> x]

\* HashMap::insert.
MapInsert(m, k, v) == [x \in DOMAIN m \cup {k} |-> IF x = k THEN v ELSE m[x]]

\* Basket::empty().
BasketEmpty == [ob |-> 0, psi |-> -1, kids |-> EmptyMap]

\* Basket::start(ob, psi).
BasketStart(ob, psi) == [ob |-> ob, psi |-> psi, kids |-> EmptyMap]

\* Basket::put(loc, kid).
BasketPutKid(b, loc, kid) == [b EXCEPT !.kids = MapInsert(b.kids, loc, kid)]

\* impl fmt::Display for Kid.
KidToString(kid) ==
    CASE kid.kind = "Empt" -> << "->", "{}" >>
      [] kid.kind = "Rqtd" -> << "->", "?" >>
      [] kid.kind = "Need" ->
            << "->", "(", "nu" >> \o IntStr(kid.ob) \o << ";", "beta" >> \o IntStr(kid.bk) \o << ")" >>
      [] kid.kind = "Wait" ->
            << "->>", "beta" >> \o IntStr(kid.bk) \o << "." >> \o LocToString(kid.loc)
      [] kid.kind = "Dtzd" -> << "->>>", "0", "x" >> \o DataHex(kid.d)

\* The strings of a set in descending byte order.
RECURSIVE SortedDown(_)
SortedDown(S) ==
    IF S = {} THEN << >>
    ELSE LET m == CHOOSE x \in S : \A y \in S \ {x} : StrLess(y, x)
         IN  << m >> \o SortedDown(S \ {m})

\* A Display that sorts its entries the wrong way round.
EntryOrderDescending(S) == SortedDown(S)

\* The order in which Display lays out the entries of a map: sorted() in
\* Basket, parts.sort() in Object.
EntryOrder(S) == SortedStrs(S)

\* The vector parts of Basket's Display: the ob, the psi, then the kids.
BasketParts(b) ==
    << << "nu" >> \o IntStr(b.ob), << "xi", ":", "beta" >> \o IntStr(b.psi) >>
    \o EntryOrder({ LocToString(l) \o KidToString(b.kids[l]) : l \in DOMAIN b.kids })

\* impl fmt::Display for Basket.
BasketToString(b) == << "[" >> \o Join(BasketParts(b), << ",", " " >>) \o << "]" >>

\* The regex \[(.*)] : what group 1 captures, from the first "[" to the last
\* "]" of the text.
BasketCapture(s) ==
    LET opens  == { i \in 1..Len(s) : s[i] = "[" }
        closes == { i \in 1..Len(s) : s[i] = "]" }
        first  == CHOOSE i \in opens : \A k \in opens : i <= k
        last   == CHOOSE j \in closes : \A k \in closes : k <= j
    IN  IF opens # {} /\ closes # {} /\ first < last
        THEN [ok |-> TRUE, inner |-> SubSeq(s, first + 1, last - 1)]
        ELSE [ok |-> FALSE]

\* The alternatives of group 2 of the kid pattern.
KidMarkers ==
    << << "->>>", "0", "x" >>, << "->>", "beta" >>, << "->", "(", "nu" >>,
       << "->", "{}" >>, << "->", "?" >> >>

MarkerAt(p, i) ==
    { m \in 1..Len(KidMarkers) :
        /\ i + Len(KidMarkers[m]) - 1 <= Len(p)
        /\ SubSeq(p, i, i + Len(KidMarkers[m]) - 1) = KidMarkers[m] }

\* The regex ^(.*)(marker)(.*?)\)?$ : group 1 is greedy, so the marker is the
\* last one of the text; group 3 is lazy, so a closing parenthesis at the end
\* is left out of it.
KidCapture(p) ==
    LET at   == { i \in 1..Len(p) : MarkerAt(p, i) # {} }
        i    == CHOOSE k \in at : \A j \in at : j <= k
        m    == KidMarkers[CHOOSE k \in MarkerAt(p, i) : TRUE]
        rest == SubSeq(p, i + Len(m), Len(p))
    IN  IF at = {} THEN [ok |-> FALSE]
        ELSE [ok |-> TRUE, g1 |-> SubSeq(p, 1, i - 1), g2 |-> m,
              g3 |-> IF rest # << >> /\ rest[Len(rest)] = ")"
                     THEN SubSeq(rest, 1, Len(rest) - 1) ELSE rest]

Failure(err, text) == [ok |-> FALSE, err |-> err, text |-> text]

\* A match on kind_str that takes data it cannot read for zero.
KidFromCaptureDefaultsData(caps) ==
    CASE caps.g2 = << "->", "{}" >> -> [ok |-> TRUE, kid |-> Empt]
      [] caps.g2 = << "->", "?" >> -> [ok |-> TRUE, kid |-> Rqtd]
      [] caps.g2 = << "->>>", "0", "x" >> ->
            LET d == ParseData(caps.g3)
            IN  [ok |-> TRUE, kid |-> Dtzd(IF d.ok THEN d.val ELSE 0)]
      [] caps.g2 = << "->>", "beta" >> ->
            LET ba == Split(caps.g3, ".")
                b  == ParseIsize(ba[1])
                a  == LocFromStr(ba[2])
            IN  IF Len(ba) # 2 THEN Failure("Invalid wait format", caps.g3)
                ELSE IF ~b.ok THEN Failure("Can't parse wait number", ba[1])
                ELSE IF ~a.ok THEN Failure("Can't parse wait loc", ba[2])
                ELSE [ok |-> TRUE, kid |-> Wait(b.val, a.loc)]
      [] caps.g2 = << "->", "(", "nu" >> ->
            LET op  == Split(caps.g3, ";")
                o   == ParseUsize(op[1])
                psi == ParseIsize(Skip(op[2], 1))
            IN  IF Len(op) # 2 THEN Failure("Can't parse the needed pair", caps.g3)
                ELSE IF ~o.ok THEN Failure("Can't parse need obj", op[1])
                ELSE IF ~psi.ok THEN Failure("Can't parse need psi", Skip(op[2], 1))
                ELSE [ok |-> TRUE, kid |-> Need(o.val, psi.val)]

\* The match on kind_str: the Kid of one part, or the error.
KidFromCapture(caps) ==
    CASE caps.g2 = << "->", "{}" >> -> [ok |-> TRUE, kid |-> Empt]
      [] caps.g2 = << "->", "?" >> -> [ok |-> TRUE, kid |-> Rqtd]
      [] caps.g2 = << "->>>", "0", "x" >> ->
            LET d == ParseData(caps.g3)
            IN  IF d.ok THEN [ok |-> TRUE, kid |-> Dtzd(d.val)]
                ELSE Failure("Can't parse data", caps.g3)
      [] caps.g2 = << "->>", "beta" >> ->
            LET ba == Split(caps.g3, ".")
                b  == ParseIsize(ba[1])
                a  == LocFromStr(ba[2])
            IN  IF Len(ba) # 2 THEN Failure("Invalid wait format", caps.g3)
                ELSE IF ~b.ok THEN Failure("Can't parse wait number", ba[1])
                ELSE IF ~a.ok THEN Failure("Can't parse wait loc", ba[2])
                ELSE [ok |-> TRUE, kid |-> Wait(b.val, a.loc)]
      [] caps.g2 = << "->", "(", "nu" >> ->
            LET op  == Split(caps.g3, ";")
                o   == ParseUsize(op[1])
                psi == ParseIsize(Skip(op[2], 1))
            IN  IF Len(op) # 2 THEN Failure("Can't parse the needed pair", caps.g3)
                ELSE IF ~o.ok THEN Failure("Can't parse need obj", op[1])
                ELSE IF ~psi.ok THEN Failure("Can't parse need psi", Skip(op[2], 1))
                ELSE [ok |-> TRUE, kid |-> Need(o.val, psi.val)]

RECURSIVE ParseKids(_, _, _)
\* The loop over parts.iter().skip(2): every part puts one kid into bsk.
ParseKids(parts, i, bsk) ==
    IF i > Len(parts) THEN [ok |-> TRUE, bsk |-> bsk]
    ELSE LET p    == parts[i]
             caps == KidCapture(p)
             kid  == KidFromCapture(caps)
             loc  == LocFromStr(caps.g1)
         IN  IF ~caps.ok THEN Failure("Can't parse kid pattern", p)
             ELSE IF ~kid.ok THEN kid
             ELSE IF ~loc.ok THEN Failure("Can't parse location", caps.g1)
             ELSE ParseKids(parts, i + 1, BasketPutKid(bsk, loc.loc, kid.kid))

\* inner.trim().split(',').map(|t| t.trim()).collect()
TrimmedParts(inner, sep) ==
    LET raw == Split(Trim(inner), sep)
    IN  [i \in 1..Len(raw) |-> Trim(raw[i])]

\* impl FromStr for Basket.
BasketFromStr(s) ==
    LET caps  == BasketCapture(s)
        parts == TrimmedParts(caps.inner, ",")
        ob    == ParseUsize(Skip(parts[1], 1))
        psi   == ParseIsize(Skip(parts[2], 3))
    IN  IF ~caps.ok THEN Failure("Can't parse the basket", s)
        ELSE IF ~ob.ok THEN Failure("Can't parse the v part", Skip(parts[1], 1))
        ELSE IF Len(parts) < 2 THEN Failure("Missing psi part in basket", s)
        ELSE IF ~psi.ok THEN Failure("Can't parse the psi part", Skip(parts[2], 3))
        ELSE ParseKids(parts, 3, [BasketEmpty EXCEPT !.ob = ob.val, !.psi = psi.val])

-----------------------------------------------------------------------------
(* Locator: src/src/locator.rs is not among the sources; a Locator is the  *)
(* non-empty sequence of Locs of the specification, printed dot-joined.    *)

\* Locator::loc(0): the first step.
LocatorFirst(locator) == locator[1]

RECURSIVE LocatorToString(_)
\* Display of a Locator: the printed Locs joined by dots.
LocatorToString(locator) ==
    IF Len(locator) = 1 THEN LocToString(locator[1])
    ELSE LocToString(locator[1]) \o << "." >> \o LocatorToString(Tail(locator))

\* Locator::from_str: every dot-separated step is a Loc.
LocatorFromStr(s) ==
    LET steps == Split(s, ".")
        locs  == [i \in 1..Len(steps) |-> LocFromStr(steps[i])]
    IN  IF \E i \in 1..Len(steps) : ~locs[i].ok
        THEN Failure("Unknown loc in locator", s)
        ELSE [ok |-> TRUE, locator |-> [i \in 1..Len(steps) |-> locs[i].loc]]

-----------------------------------------------------------------------------
(* Object (src/src/object.rs).                                             *)

None == [some |-> FALSE]
Some(v) == [some |-> TRUE, v |-> v]

\* Object::open().
ObjectOpen == [delta |-> None, lambda |-> None, constant |-> FALSE, attrs |-> EmptyMap]

\* Object::dataic(d).
ObjectDataic(d) == [delta |-> Some(d), lambda |-> None, constant |-> TRUE, attrs |-> EmptyMap]

\* Object::atomic(n, a): the name stands for the atom too.
ObjectAtomic(n) == [delta |-> None, lambda |-> Some(n), constant |-> FALSE, attrs |-> EmptyMap]

\* Object::copy.
ObjectCopy(o) ==
    [ObjectOpen EXCEPT !.lambda = o.lambda, !.constant = o.constant,
                       !.delta = o.delta, !.attrs = o.attrs]

\* Object::push(loc, p, xi).
ObjectPush(o, loc, p, xi) ==
    [o EXCEPT !.attrs = MapInsert(o.attrs, loc, [locator |-> p, xi |-> xi])]

\* Object::with(loc, p, xi).
ObjectWith(o, loc, p, xi) ==
    [ObjectCopy(o) EXCEPT !.attrs = MapInsert(o.attrs, loc, [locator |-> p, xi |-> xi])]

\* Object::as_constant().
ObjectAsConstant(o) == [ObjectCopy(o) EXCEPT !.constant = TRUE]

SuffixPi == << "(", "pi", ")" >>
SuffixXi == << "(", "xi", ")" >>

\* The suffix Display gives to an attribute.
AttrSuffix(a) ==
    IF a.xi THEN SuffixXi
    ELSE IF LocatorFirst(a.locator).tag = "Obj" THEN SuffixPi
    ELSE << >>

\* The vector parts of Object's Display, after parts.sort().
ObjectParts(o) ==
    EntryOrder(
        (IF o.lambda.some THEN { << "lambda", "|->" >> \o o.lambda.v } ELSE {})
        \cup (IF o.delta.some THEN { << "Delta", "|->", "0", "x" >> \o DataHex(o.delta.v) } ELSE {})
        \cup { LocToString(l) \o << "|->" >> \o LocatorToString(o.attrs[l].locator)
                   \o AttrSuffix(o.attrs[l]) : l \in DOMAIN o.attrs })

\* impl fmt::Display for Object.
ObjectToString(o) ==
    << "[[" >> \o (IF o.constant THEN << "!", " " >> ELSE << >>)
    \o Join(ObjectParts(o), << ",", " " >>) \o << "]]" >>

\* The regex [[(!?)(.*)]] : from the first "[[" to the last "]]" of the text;
\* group 1 takes a "!" that follows the "[[".
ObjectCapture(s) ==
    LET opens  == { i \in 1..Len(s) : s[i] = "[[" }
        closes == { i \in 1..Len(s) : s[i] = "]]" }
        first  == CHOOSE i \in opens : \A k \in opens : i <= k
        last   == CHOOSE j \in closes : \A k \in closes : k <= j
        bang   == first + 1 < last /\ s[first + 1] = "!"
    IN  IF opens # {} /\ closes # {} /\ first < last
        THEN [ok |-> TRUE, flag |-> IF bang THEN << "!" >> ELSE << >>,
              body |-> SubSeq(s, first + (IF bang THEN 2 ELSE 1), last - 1)]
        ELSE [ok |-> FALSE]

\* A registry that knows one name more.
AtomNamesAndOneMore ==
    { << "i", "n", "t", "-", "t", "i", "m", "e", "s" >>,
      << "i", "n", "t", "-", "d", "i", "v" >>,
      << "i", "n", "t", "-", "s", "u", "b" >>,
      << "i", "n", "t", "-", "a", "d", "d" >>,
      << "i", "n", "t", "-", "n", "e", "g" >>,
      << "b", "o", "o", "l", "-", "i", "f" >>,
      << "i", "n", "t", "-", "l", "e", "s", "s" >>,
      << "u", "n", "k", "n", "o", "w", "n", "-", "l", "a", "m", "b", "d", "a" >> }

\* The names of the atoms that from_str knows.
AtomNames ==
    { << "i", "n", "t", "-", "t", "i", "m", "e", "s" >>,
      << "i", "n", "t", "-", "d", "i", "v" >>,
      << "i", "n", "t", "-", "s", "u", "b" >>,
      << "i", "n", "t", "-", "a", "d", "d" >>,
      << "i", "n", "t", "-", "n", "e", "g" >>,
      << "b", "o", "o", "l", "-", "i", "f" >>,
      << "i", "n", "t", "-", "l", "e", "s", "s" >> }

\* usize subtraction in a release build: below zero it wraps to a count no
\* text reaches (a debug build panics there; a body that is only "(pi)" or
\* "(xi)" is the one input that gets there).
TakeCount(n) == IF n < 0 THEN n + 2147483647 ELSE n

\* The locator arm up to the suffixes: what is left of the body p once the
\* suffix is cut off, and the xi flag.
StripSuffix(p) ==
    LET tail == IF EndsWith(p, SuffixPi)
                THEN Take(p, TakeCount(ByteLen(p) - ByteLen(SuffixPi) - 1))
                ELSE p
        xi   == EndsWith(tail, SuffixXi)
    IN  [locator |-> IF xi THEN Take(tail, TakeCount(ByteLen(tail) - ByteLen(SuffixXi) - 1))
                     ELSE tail,
         xi |-> xi]

\* A lambda arm that sets the atom of the object under construction and
\* keeps the rest of it.
LambdaArmKeepsObject(obj, p) == [obj EXCEPT !.lambda = Some(p)]

\* The lambda arm: the object under construction becomes the atom p.
LambdaArm(obj, p) == ObjectAtomic(p)

\* A delta arm that sets the data of the object under construction and
\* keeps its attributes.
DeltaArmKeepsAttrs(obj, d) == [obj EXCEPT !.delta = Some(d), !.lambda = None, !.constant = TRUE]

\* A delta arm that leaves the data object as it was opened, not constant.
DeltaArmNotConstant(obj, d) == [ObjectDataic(d) EXCEPT !.constant = FALSE]

\* The delta arm: the object under construction becomes the data d.
DeltaArm(obj, d) == ObjectDataic(d)

RECURSIVE ParseAttrs(_, _, _, _)
\* The loop over the pairs of the body.
ParseAttrs(pairs, k, obj, s) ==
    IF k > Len(pairs) THEN [ok |-> TRUE, obj |-> obj]
    ELSE LET pair  == pairs[k]
             ip    == TrimmedParts(pair, "|->")
             i     == ip[1]
             p     == ip[2]
             data  == ParseData(Skip(p, 2))
             strip == StripSuffix(p)
             loc   == LocFromStr(i)
             ltr   == LocatorFromStr(strip.locator)
         IN  IF Len(ip) # 2 THEN Failure("Can't split in two parts", pair)
             ELSE IF i = << >> THEN Failure("Empty attribute name", pair)
             ELSE IF Head(i) = "lambda" THEN
                 IF p \in AtomNames THEN ParseAttrs(pairs, k + 1, LambdaArm(obj, p), s)
                 ELSE Failure("Unknown lambda", p)
             ELSE IF Head(i) = "Delta" THEN
                 IF data.ok THEN ParseAttrs(pairs, k + 1, DeltaArm(obj, data.val), s)
                 ELSE Failure("Can't parse hex", Skip(p, 2))
             ELSE IF ~loc.ok THEN Failure("Can't parse location", i)
             ELSE IF ~ltr.ok THEN Failure("Can't parse locator", strip.locator)
             ELSE ParseAttrs(pairs, k + 1, ObjectPush(obj, loc.loc, ltr.locator, strip.xi), s)

\* impl FromStr for Object.
ObjectFromStr(s) ==
    LET caps  == ObjectCapture(s)
        inner == Trim(caps.body)
        r     == ParseAttrs(TrimmedParts(inner, ","), 1, ObjectOpen, s)
    IN  IF ~caps.ok THEN Failure("Can't parse object format", s)
        ELSE IF ~r.ok THEN r
        ELSE IF caps.flag # << >> THEN [ok |-> TRUE, obj |-> [r.obj EXCEPT !.constant = TRUE]]
        ELSE r

-----------------------------------------------------------------------------
(* Parsing and printing a Loc: the run of the test parses_and_prints on    *)
(* one text.                                                               *)

DigitChars == { DecDigits[i] : i \in 1..10 }

\* The runs of one to MaxDigits decimal digits.
DigitRuns == UNION { [1..n -> DigitChars] : n \in 1..MaxDigits }

\* The symbolic and the ASCII names of the six special Locs.
SymbolicNames == { << "Phi" >>, << "rho" >>, << "Delta" >>, << "phi" >>, << "pi" >>, << "sigma" >> }
AsciiNames == { << "Q" >>, << "^" >>, << "D" >>, << "@" >>, << "P" >>, << "&" >> }

\* The argument forms (digits, with or without the prefix) and the object form.
ArgTexts == DigitRuns \cup { << "alpha" >> \o ds : ds \in DigitRuns }
ObjTexts == { << "nu" >> \o ds : ds \in DigitRuns }

\* Every textual form of the Loc table.
TableTexts == SymbolicNames \cup AsciiNames \cup ArgTexts \cup ObjTexts

\* Texts outside the table.
StrayTexts ==
    { << >>, << "nu" >>, << "alpha" >>, << "x" >>, << "-", "1" >>, << "alpha", "-", "1" >>,
      << "nu", "x" >>, << "i", "n", "v", "a", "l", "i", "d" >>, << "rho", " " >> }

LocTexts == TableTexts \cup StrayTexts

NoResult == [ok |-> FALSE, err |-> "not run", text |-> << >>]

\* The Loc run is not part of the behaviour.
LocOff ==
    /\ lpc = "off"
    /\ ltext = << >>
    /\ lres = NoResult
    /\ lprinted = << >>
    /\ lres2 = NoResult

LocInit ==
    /\ lpc = "text"
    /\ ltext \in LocTexts
    /\ lres = NoResult
    /\ lprinted = << >>
    /\ lres2 = NoResult

\* let loc1 = Loc::from_str(txt)
LocParse ==
    /\ lpc = "text"
    /\ lres' = LocFromStr(ltext)
    /\ lpc' = IF lres'.ok THEN "parsed" ELSE "failed"
    /\ UNCHANGED <<ltext, lprinted, lres2, basketVars, objectVars, emuVars>>

\* loc1.to_string()
LocPrint ==
    /\ lpc = "parsed"
    /\ lprinted' = LocToString(lres.loc)
    /\ lpc' = "printed"
    /\ UNCHANGED <<ltext, lres, lres2, basketVars, objectVars, emuVars>>

\* let loc2 = Loc::from_str(&loc1.to_string())
LocReparse ==
    /\ lpc = "printed"
    /\ lres2' = LocFromStr(lprinted)
    /\ lpc' = "reparsed"
    /\ UNCHANGED <<ltext, lres, lprinted, basketVars, objectVars, emuVars>>

-----------------------------------------------------------------------------
(* Building, printing and parsing a Basket: the run of the tests           *)
(* prints_itself and parses_text on one basket.                            *)

\* The keys, the data and the kids put into the baskets of the model.
BasketLocs == { Phi, Rho, Delta, Attr(1), Attr(12) }
DataSamples == { 42, 7969, -1 }
BasketKids ==
    { Empt, Rqtd, Need(7, 12), Need(5, -1), Wait(4, Phi), Wait(42, Attr(3)) }
    \cup { Dtzd(d) : d \in DataSamples }

BasketOff ==
    /\ bpc = "off"
    /\ basket = BasketEmpty
    /\ btext = << >>
    /\ bres = NoResult
    /\ btext2 = << >>

BasketInit ==
    /\ bpc = "build"
    /\ basket \in { BasketEmpty, BasketStart(5, 7) }
    /\ btext = << >>
    /\ bres = NoResult
    /\ btext2 = << >>

\* basket.put(loc, kid)
BasketPut ==
    /\ bpc = "build"
    /\ \E loc \in BasketLocs, kid \in BasketKids :
          /\ loc \in DOMAIN basket.kids \/ Cardinality(DOMAIN basket.kids) < MaxKids
          /\ basket' = BasketPutKid(basket, loc, kid)
    /\ UNCHANGED <<bpc, btext, bres, btext2, locVars, objectVars, emuVars>>

\* basket.to_string()
BasketPrint ==
    /\ bpc = "build"
    /\ btext' = BasketToString(basket)
    /\ bpc' = "printed"
    /\ UNCHANGED <<basket, bres, btext2, locVars, objectVars, emuVars>>

\* Basket::from_str(txt)
BasketParse ==
    /\ bpc = "printed"
    /\ bres' = BasketFromStr(btext)
    /\ bpc' = IF bres'.ok THEN "parsed" ELSE "failed"
    /\ UNCHANGED <<basket, btext, btext2, locVars, objectVars, emuVars>>

\* basket.to_string() of the parsed basket
BasketReprint ==
    /\ bpc = "parsed"
    /\ btext2' = BasketToString(bres.bsk)
    /\ bpc' = "reprinted"
    /\ UNCHANGED <<basket, btext, bres, locVars, objectVars, emuVars>>

-----------------------------------------------------------------------------
(* Parsing a basket text that was written by hand, sound or damaged: the   *)
(* run of the tests fails_on_* of basket.rs on one text.                   *)

Invalid == << "i", "n", "v", "a", "l", "i", "d" >>

\* Entries that parse, from the text of parses_itself.
SoundEntries ==
    { << "rho", "->>", "beta", "4", ".", "phi" >>,
      << "alpha", "3", "->", "(", "nu", "5", ";", "beta", "5", ")" >> }

\* Entries with one defect each, by the name of the defect: the entries of
\* the tests fails_on_*, and an empty data, a wait with two dots and an
\* empty key besides.
DamagedEntries ==
    { [defect |-> "data",        text |-> << "Delta", "->>>", "0", "x", "Z", "Z", "Z", "Z" >>],
      [defect |-> "data",        text |-> << "Delta", "->>>", "0", "x" >>],
      [defect |-> "wait format", text |-> << "rho", "->>", "beta" >> \o Invalid],
      [defect |-> "wait format", text |-> << "rho", "->>", "beta", "4", ".", "phi", ".", "phi" >>],
      [defect |-> "wait number", text |-> << "rho", "->>", "beta", "n", "o", "t", "n", "u", "m", ".", "phi" >>],
      [defect |-> "wait loc",    text |-> << "rho", "->>", "beta", "5", "." >> \o Invalid],
      [defect |-> "need format", text |-> << "alpha", "1", "->", "(", "nu" >> \o Invalid \o << ")" >>],
      [defect |-> "need obj",    text |-> << "alpha", "1", "->", "(", "nu" >> \o Invalid
                                            \o << "_", "o", "b", "j", ";", "beta", "5", ")" >>],
      [defect |-> "need psi",    text |-> << "alpha", "1", "->", "(", "nu", "5", ";", "beta" >>
                                            \o Invalid \o << "_", "p", "s", "i", ")" >>],
      [defect |-> "marker",      text |-> << "alpha", "1", "->", "skull" >>],
      [defect |-> "key",         text |-> Invalid \o << "_", "l", "o", "c", "->", "?" >>],
      [defect |-> "key",         text |-> << "->", "?" >>] }

\* The sequences of at most n sound entries.
SoundKids(n) == UNION { [1..k -> SoundEntries] : k \in 0..n }

\* What is written: the brackets ("both", "open" or "none"), the number of
\* the object, the number of the parent or no parent part at all, the sound
\* entries, and at most one of them replaced by a damaged entry.  A text
\* without parent part has no entries either, so that every part keeps the
\* place where from_str looks for it.
BasketWritings ==
    { w \in [brackets : { "both", "open", "none" },
             ob       : { << "5" >>, Invalid, << >> },
             psi      : { None, Some(<< "7" >>), Some(Invalid) },
             kids     : SoundKids(MaxKids),
             at       : 0..MaxKids,
             damaged  : DamagedEntries] :
        /\ w.at <= Len(w.kids)
        /\ w.at = 0 => w.damaged = CHOOSE d \in DamagedEntries : TRUE
        /\ w.psi = None => w.kids = << >> }

\* The text of a writing.
BasketWritten(w) ==
    LET kids  == [i \in 1..Len(w.kids) |-> IF i = w.at THEN w.damaged.text ELSE w.kids[i]]
        parts == << << "nu" >> \o w.ob >>
                 \o (IF w.psi = None THEN << >> ELSE << << "xi", ":", "beta" >> \o w.psi.v >>)
                 \o kids
    IN  (IF w.brackets = "none" THEN << >> ELSE << "[" >>)
        \o Join(parts, << ",", " " >>)
        \o (IF w.brackets = "both" THEN << "]" >> ELSE << >>)

\* The defects of a writing, by name.
Defects(w) ==
    (IF w.brackets # "both" THEN { "brackets" } ELSE {})
    \cup (IF w.ob # << "5" >> THEN { "ob" } ELSE {})
    \cup (IF w.psi = None THEN { "no psi" } ELSE {})
    \cup (IF w.psi = Some(Invalid) THEN { "psi" } ELSE {})
    \cup (IF w.at # 0 THEN { w.damaged.defect } ELSE {})

\* The texts handed to Basket::from_str.
BasketTexts == { BasketWritten(w) : w \in BasketWritings }

\* A text is at hand, as the tests write it.
BasketTextInit ==
    /\ bpc = "printed"
    /\ basket = BasketEmpty
    /\ btext \in BasketTexts
    /\ bres = NoResult
    /\ btext2 = << >>

-----------------------------------------------------------------------------
(* Building, writing, printing and parsing an Object: the run of the tests *)
(* prints_and_parses_simple_object and prints_and_parses_some_object on    *)
(* one object or one text.                                                 *)

\* The keys, locators and names given to the public operations.
ObjectLocs == { Phi, Attr(1), Attr(12), Root }
ObjectLocators == { << Obj(4) >>, << Pi, Attr(0) >> }
BuiltAtoms == { << "i", "n", "t", "-", "a", "d", "d" >>, << "b", "o", "o", "l", "-", "i", "f" >> }

\* The entries written in the source syntax of src/src/bin/fibonacci.rs.
LambdaEntry(name) == [kind |-> "lambda", name |-> name]
DeltaEntry(hex) == [kind |-> "delta", hex |-> hex]
AttrEntry(attr, body, suffix) == [kind |-> "attr", attr |-> attr, body |-> body, suffix |-> suffix]

\* Locator texts: one object step, symbolic steps, ASCII steps, mixed steps.
WrittenLocators ==
    { << "nu", "2" >>, << "pi", ".", "alpha", "0" >>, << "P", ".", "0" >>, << "rho", ".", "0" >> }

EntryPool ==
    { LambdaEntry(n) : n \in BuiltAtoms }
    \cup { DeltaEntry(<< "0", "0", "2", "A" >>), DeltaEntry(<< "F", "F", "F", "F" >>) }
    \cup { AttrEntry(<< "phi" >>, l, x) : l \in WrittenLocators, x \in { << >>, SuffixPi, SuffixXi } }
    \cup { AttrEntry(<< "alpha", "0" >>, << "nu", "2" >>, SuffixPi) }

\* One entry as the source writes it: name, arrow and body, spaced.
EntryText(e) ==
    CASE e.kind = "lambda" -> << "lambda", " ", "|->", " " >> \o e.name
      [] e.kind = "delta"  -> << "Delta", " ", "|->", " ", "0", "x" >> \o e.hex
      [] e.kind = "attr"   -> e.attr \o << " ", "|->", " " >> \o e.body \o e.suffix

\* An object text as the source writes it.
WrittenText(bang, entries) ==
    << "[[" >> \o (IF bang THEN << "!" >> ELSE << >>) \o << " " >>
    \o Join([i \in 1..Len(entries) |-> EntryText(entries[i])], << ",", " " >>)
    \o << " ", "]]" >>

ObjectOff ==
    /\ opc = "off"
    /\ osrc = "off"
    /\ object = ObjectOpen
    /\ oentries = << >>
    /\ obang = FALSE
    /\ otext = << >>
    /\ ores = NoResult
    /\ otext2 = << >>

ObjectInit ==
    /\ \/ opc = "build" /\ osrc = "built" /\ obang = FALSE
       \/ opc = "write" /\ osrc = "written" /\ obang \in BOOLEAN
    /\ object = ObjectOpen
    /\ oentries = << >>
    /\ otext = << >>
    /\ ores = NoResult
    /\ otext2 = << >>

\* Object::open()
ObjOpen ==
    /\ opc = "build"
    /\ object' = ObjectOpen
    /\ UNCHANGED <<opc, osrc, oentries, obang, otext, ores, otext2, locVars, basketVars, emuVars>>

\* Object::dataic(d)
ObjDataic ==
    /\ opc = "build"
    /\ \E d \in DataSamples : object' = ObjectDataic(d)
    /\ UNCHANGED <<opc, osrc, oentries, obang, otext, ores, otext2, locVars, basketVars, emuVars>>

\* Object::atomic(n, a)
ObjAtomic ==
    /\ opc = "build"
    /\ \E n \in BuiltAtoms : object' = ObjectAtomic(n)
    /\ UNCHANGED <<opc, osrc, oentries, obang, otext, ores, otext2, locVars, basketVars, emuVars>>

\* obj.push(loc, p, xi)
ObjPush ==
    /\ opc = "build"
    /\ \E loc \in ObjectLocs, p \in ObjectLocators, xi \in BOOLEAN :
          /\ loc \in DOMAIN object.attrs \/ Cardinality(DOMAIN object.attrs) < MaxAttrs
          /\ object' = ObjectPush(object, loc, p, xi)
    /\ UNCHANGED <<opc, osrc, oentries, obang, otext, ores, otext2, locVars, basketVars, emuVars>>

\* obj.with(loc, p, xi)
ObjWith ==
    /\ opc = "build"
    /\ \E loc \in ObjectLocs, p \in ObjectLocators, xi \in BOOLEAN :
          /\ loc \in DOMAIN object.attrs \/ Cardinality(DOMAIN object.attrs) < MaxAttrs
          /\ object' = ObjectWith(object, loc, p, xi)
    /\ UNCHANGED <<opc, osrc, oentries, obang, otext, ores, otext2, locVars, basketVars, emuVars>>

\* obj.as_constant()
ObjAsConstant ==
    /\ opc = "build"
    /\ object' = ObjectAsConstant(object)
    /\ UNCHANGED <<opc, osrc, oentries, obang, otext, ores, otext2, locVars, basketVars, emuVars>>

\* obj.to_string()
ObjPrint ==
    /\ opc = "build"
    /\ otext' = ObjectToString(object)
    /\ opc' = "text"
    /\ UNCHANGED <<osrc, object, oentries, obang, ores, otext2, locVars, basketVars, emuVars>>

\* One more entry of a written text.
ObjWriteEntry ==
    /\ opc = "write"
    /\ Len(oentries) < MaxEntries
    /\ \E e \in EntryPool : oentries' = Append(oentries, e)
    /\ UNCHANGED <<opc, osrc, object, obang, otext, ores, otext2, locVars, basketVars, emuVars>>

\* The written text is complete.
ObjWriteDone ==
    /\ opc = "write"
    /\ otext' = WrittenText(obang, oentries)
    /\ opc' = "text"
    /\ UNCHANGED <<osrc, object, oentries, obang, ores, otext2, locVars, basketVars, emuVars>>

\* Object::from_str(&text)
ObjParse ==
    /\ opc = "text"
    /\ ores' = ObjectFromStr(otext)
    /\ opc' = IF ores'.ok THEN "parsed" ELSE "failed"
    /\ UNCHANGED <<osrc, object, oentries, obang, otext, otext2, locVars, basketVars, emuVars>>

\* obj2.to_string()
ObjReprint ==
    /\ opc = "parsed"
    /\ otext2' = ObjectToString(ores.obj)
    /\ opc' = "reprinted"
    /\ UNCHANGED <<osrc, object, oentries, obang, otext, ores, locVars, basketVars, emuVars>>

-----------------------------------------------------------------------------
(* Parsing an object text that was written by hand, sound or damaged: the  *)
(* run of the tests fails_on_* and parses_object_* of object.rs on one     *)
(* text.                                                                   *)

\* An entry written as it stands, with the defect it has.
RawEntry(defect, text) == [kind |-> "raw", defect |-> defect, text |-> text]

\* Entries with one defect each: the entries of the tests fails_on_*, and an
\* entry with two arrows, a delta without digits and the beginning of an
\* atom's name besides.
DamagedObjectEntries ==
    { RawEntry("split", << "m", "a", "l", "f", "o", "r", "m", "e", "d" >>),
      RawEntry("split", << "phi", " ", "|->", " ", "nu", "2", " ", "|->", " ", "nu", "3" >>),
      RawEntry("name", << "|->", " ", "nu", "0" >>),
      RawEntry("hex", << "Delta", " ", "|->", " ", "0", "x", "Z", "Z", "Z", "Z" >>),
      RawEntry("hex", << "Delta", " ", "|->", " ", "0", "x" >>),
      RawEntry("loc", Invalid \o << "_", "l", "o", "c", " ", "|->", " ", "nu", "0" >>),
      RawEntry("lambda", << "lambda", " ", "|->", " ", "u", "n", "k", "n", "o", "w", "n",
                            "-", "l", "a", "m", "b", "d", "a" >>),
      RawEntry("lambda", << "lambda", " ", "|->", " ", "i", "n", "t", "-", "a", "d" >>) }

\* The entries under test: the damaged ones and a lambda entry for every
\* name that from_str knows.
TestedEntries == DamagedObjectEntries \cup { LambdaEntry(n) : n \in AtomNames }

\* The sound entries around the entry under test, from the tests
\* parses_object_with_xi and prints_and_parses_some_object.
ContextEntries ==
    { DeltaEntry(<< "0", "0", "2", "A" >>), AttrEntry(<< "phi" >>, << "nu", "2" >>, SuffixXi) }

\* Sequence s with e put in at place k.
InsertAt(s, k, e) == SubSeq(s, 1, k - 1) \o << e >> \o SubSeq(s, k, Len(s))

\* What is written: the delimiters ("both", "open" or "none"), the mark of
\* a constant, and the entries, one of them the entry under test.
ObjectWritings ==
    UNION { { [delims |-> d, bang |-> b, entries |-> InsertAt(c, k, e)] :
                d \in { "both", "open", "none" }, b \in BOOLEAN, e \in TestedEntries,
                k \in 1..(Len(c) + 1) } :
            c \in UNION { [1..n -> ContextEntries] : n \in 0..(MaxEntries - 1) } }

\* The text of a writing.
ObjectWritten(w) ==
    (IF w.delims = "none" THEN << >> ELSE << "[[" >>)
    \o (IF w.bang THEN << "!" >> ELSE << >>) \o << " " >>
    \o Join([i \in 1..Len(w.entries) |->
                IF w.entries[i].kind = "raw" THEN w.entries[i].text
                ELSE EntryText(w.entries[i])], << ",", " " >>)
    \o << " " >> \o (IF w.delims = "both" THEN << "]]" >> ELSE << >>)

\* A text is at hand, as the tests write it.
ObjectTextInit ==
    /\ opc = "text"
    /\ osrc = "written"
    /\ object = ObjectOpen
    /\ \E w \in ObjectWritings :
          /\ oentries = w.entries
          /\ obang = w.bang
          /\ otext = ObjectWritten(w)
    /\ ores = NoResult
    /\ otext2 = << >>

-----------------------------------------------------------------------------
(* The dataization engine.  emu.rs and atom.rs are not in src/: the engine *)
(* and the atoms follow the specification of the engine (the sections Atom *)
(* registry and Emu / dataization engine).                                 *)

\* The options of Opt.
LogSnapshots == "LogSnapshots"
StopWhenTooManyCycles == "StopWhenTooManyCycles"
StopWhenStuck == "StopWhenStuck"
Opts == { LogSnapshots, StopWhenTooManyCycles, StopWhenStuck }

\* The names of the atom registry.
IntTimes == << "i", "n", "t", "-", "t", "i", "m", "e", "s" >>
IntDiv == << "i", "n", "t", "-", "d", "i", "v" >>
IntSub == << "i", "n", "t", "-", "s", "u", "b" >>
IntAdd == << "i", "n", "t", "-", "a", "d", "d" >>
IntNeg == << "i", "n", "t", "-", "n", "e", "g" >>
BoolIf == << "b", "o", "o", "l", "-", "i", "f" >>
IntLess == << "i", "n", "t", "-", "l", "e", "s", "s" >>

\* 16-bit arithmetic wraps around.
Wrap(n) == ((n + 32768) % 65536) - 32768

\* Integer division, rounded towards zero.
Quot(a, b) ==
    LET abs(x) == IF x < 0 THEN -x ELSE x
    IN  IF (a < 0) = (b < 0) THEN abs(a) \div abs(b) ELSE -(abs(a) \div abs(b))

\* The slot loc of a basket's slot map: a slot the map does not hold is empty.
SlotOf(kids, loc) == IF loc \in DOMAIN kids THEN kids[loc] ELSE Empt

\* The slot loc of basket bk of the arena (baskets are numbered from 0).
KidAt(bs, bk, loc) == SlotOf(bs[bk + 1].kids, loc)

IsDtzd(kid) == kid.kind = "Dtzd"

\* An atom that dataizes argument 0 and argument 1 whatever the predicate.
OperandsBothBranches(name, kids) ==
    IF name = BoolIf THEN << Rho, Attr(0), Attr(1) >>
    ELSE IF name = IntNeg THEN << Rho >>
    ELSE << Rho, Attr(0) >>

\* The operand slots an atom dataizes, in the order it dataizes them: rho and
\* argument 0 for the arithmetic atoms, rho for int-neg, and for bool-if rho
\* and then only the branch the predicate chooses.
Operands(name, kids) ==
    IF name = BoolIf THEN
        IF IsDtzd(SlotOf(kids, Rho))
        THEN << Rho, IF kids[Rho].d # 0 THEN Attr(0) ELSE Attr(1) >>
        ELSE << Rho >>
    ELSE IF name = IntNeg THEN << Rho >>
    ELSE << Rho, Attr(0) >>

\* The operands of an atom that are not data yet, in order.
Pending(name, kids) == SelectSeq(Operands(name, kids), LAMBDA l : ~IsDtzd(SlotOf(kids, l)))

\* The atom called on a basket whose operands are data.
AtomApply(name, kids) ==
    LET rho == kids[Rho].d
        arg == kids[Operands(name, kids)[Len(Operands(name, kids))]].d
    IN  CASE name = IntAdd   -> [ok |-> TRUE, d |-> Wrap(rho + arg)]
          [] name = IntSub   -> [ok |-> TRUE, d |-> Wrap(rho - arg)]
          [] name = IntTimes -> [ok |-> TRUE, d |-> Wrap(rho * arg)]
          [] name = IntDiv   -> IF arg = 0 THEN Failure("division by zero", << >>)
                                ELSE [ok |-> TRUE, d |-> Wrap(Quot(rho, arg))]
          [] name = IntLess  -> [ok |-> TRUE, d |-> IF rho < arg THEN 1 ELSE 0]
          [] name = IntNeg   -> [ok |-> TRUE, d |-> Wrap(-rho)]
          [] name = BoolIf   -> [ok |-> TRUE, d |-> arg]

\* The slots a new basket of object o is seeded with: requested for every
\* attribute, data for the data slot; the result slot is data for a data
\* object, requested when a locator or an atom defines it, empty otherwise.
Seed(o) ==
    LET attrs == [l \in DOMAIN o.attrs |-> Rqtd]
        data  == IF o.delta.some THEN MapInsert(attrs, Delta, Dtzd(o.delta.v)) ELSE attrs
        phi   == IF o.delta.some THEN Dtzd(o.delta.v)
                 ELSE IF o.lambda.some \/ Phi \in DOMAIN o.attrs THEN Rqtd
                 ELSE Empt
    IN  MapInsert(data, Phi, phi)

\* A fresh basket for object ob under the parent psi.
NewBasket(objs, ob, psi) == [BasketStart(ob, psi) EXCEPT !.kids = Seed(objs[ob])]

\* Basket 0: the activation of object 0, its own parent, its result requested.
RootBasket(objs) == BasketPutKid(NewBasket(objs, 0, 0), Phi, Rqtd)

\* The arena with the slot loc of basket bk set to kid.
SetKid(bs, bk, loc, kid) == [bs EXCEPT ![bk + 1] = BasketPutKid(@, loc, kid)]

RECURSIVE SlotCount(_)
\* The number of slots of all the baskets of the arena.
SlotCount(bs) ==
    IF bs = << >> THEN 0 ELSE Cardinality(DOMAIN Head(bs).kids) + SlotCount(Tail(bs))

NoTarget == << >>

\* What one step yields: the arena, the slot marked as the next progress
\* target, whether a slot changed or a basket was allocated, or the failure.
Moved(bs) == [ok |-> TRUE, bs |-> bs, target |-> NoTarget, progress |-> TRUE]
Recurse(bs, slot) == [ok |-> TRUE, bs |-> bs, target |-> slot, progress |-> FALSE]
Stay(bs) == [ok |-> TRUE, bs |-> bs, target |-> NoTarget, progress |-> FALSE]
Fail(bs, err) == [ok |-> FALSE, bs |-> bs, target |-> NoTarget, progress |-> FALSE, err |-> err]

RECURSIVE Resolve(_, _, _, _)
\* Locator resolution from the position (bk, loc): rho, sigma and pi hop to
\* the parent, Root to basket 0, an attribute, the data slot and the result
\* slot set the slot.  The slot found is waited for, and that wait chases what
\* it is bound to.  An object step inside a path is not resolved.
Resolve(bs, steps, bk, loc) ==
    IF steps = << >> THEN [ok |-> TRUE, bk |-> bk, loc |-> loc]
    ELSE LET s == Head(steps)
         IN  CASE s.tag \in { "Rho", "Sigma", "Pi" } -> Resolve(bs, Tail(steps), bs[bk + 1].psi, Phi)
               [] s.tag = "Root" -> Resolve(bs, Tail(steps), 0, Phi)
               [] s.tag \in { "Attr", "Delta", "Phi" } -> Resolve(bs, Tail(steps), bk, s)
               [] s.tag = "Obj" -> Failure("object step in a path", << >>)

\* The step of a requested slot: a direct object reference becomes a need of
\* that object, under this basket with the pi binding and under this basket's
\* parent with the xi binding; a path is resolved and waited for, and a path
\* that ends at a data slot is read at once.  The requested result of a data
\* object is its data.
StepRqtd(objs, bs, bk, loc) ==
    LET o == objs[bs[bk + 1].ob]
    IN  IF loc \in DOMAIN o.attrs THEN
            LET a == o.attrs[loc]
                r == Resolve(bs, a.locator, bk, Phi)
            IN  IF Len(a.locator) = 1 /\ LocatorFirst(a.locator).tag = "Obj"
                THEN Moved(SetKid(bs, bk, loc,
                         Need(LocatorFirst(a.locator).n, IF a.xi THEN bs[bk + 1].psi ELSE bk)))
                ELSE IF ~r.ok THEN Fail(bs, r.err)
                ELSE IF r.loc = Delta THEN
                    IF IsDtzd(KidAt(bs, r.bk, Delta))
                    THEN Moved(SetKid(bs, bk, loc, KidAt(bs, r.bk, Delta)))
                    ELSE Fail(bs, "read from empty slot")
                ELSE Moved(SetKid(bs, bk, loc, Wait(r.bk, r.loc)))
        ELSE IF loc = Phi /\ o.delta.some THEN Moved(SetKid(bs, bk, loc, Dtzd(o.delta.v)))
        ELSE Fail(bs, "read from empty slot")

\* A step of Need that allocates over the last basket of the arena.
StepNeedReusesBasket(objs, bs, bk, loc) ==
    LET k == KidAt(bs, bk, loc)
    IN  IF k.ob \notin DOMAIN objs THEN Fail(bs, "out-of-range reference")
        ELSE Moved(SetKid([bs EXCEPT ![Len(bs)] = NewBasket(objs, k.ob, k.bk)], bk, loc,
                          Wait(Len(bs) - 1, Phi)))

\* The step of Need(ob, parent): a new basket at the end of the arena, and
\* the slot waits for its result.
StepNeed(objs, bs, bk, loc) ==
    LET k == KidAt(bs, bk, loc)
    IN  IF k.ob \notin DOMAIN objs THEN Fail(bs, "out-of-range reference")
        ELSE Moved(SetKid(Append(bs, NewBasket(objs, k.ob, k.bk)), bk, loc, Wait(Len(bs), Phi)))

\* A step of Wait that never copies.
StepWaitNeverCopies(bs, bk, loc) ==
    Recurse(bs, << KidAt(bs, bk, loc).bk, KidAt(bs, bk, loc).loc >>)

\* The step of Wait(b, l): copy the data of the slot waited for, or mark that
\* slot as the next progress target.
StepWait(bs, bk, loc) ==
    LET k == KidAt(bs, bk, loc)
    IN  IF IsDtzd(KidAt(bs, k.bk, k.loc)) THEN Moved(SetKid(bs, bk, loc, KidAt(bs, k.bk, k.loc)))
        ELSE Recurse(bs, << k.bk, k.loc >>)

\* Whether the slot is the result slot of a basket of an atom.
IsAtomSlot(objs, bs, bk, loc) == loc = Phi /\ objs[bs[bk + 1].ob].lambda.some

\* The step of the requested result of an atom: dataize_slot on its first
\* operand that is not data.
StepAtom(objs, bs, bk) ==
    LET p == Pending(objs[bs[bk + 1].ob].lambda.v, bs[bk + 1].kids)
    IN  IF p = << >> THEN Stay(bs) ELSE Recurse(bs, << bk, Head(p) >>)

\* Step 2b: the chosen slot advances one step.
Advance(objs, bs, bk, loc) ==
    LET k == KidAt(bs, bk, loc)
    IN  CASE k.kind = "Empt" -> Fail(bs, "read from empty slot")
          [] k.kind = "Rqtd" -> IF IsAtomSlot(objs, bs, bk, loc) THEN StepAtom(objs, bs, bk)
                                ELSE StepRqtd(objs, bs, bk, loc)
          [] k.kind = "Need" -> StepNeed(objs, bs, bk, loc)
          [] k.kind = "Wait" -> StepWait(bs, bk, loc)
          [] k.kind = "Dtzd" -> Stay(bs)

\* Step 2c: when the basket of the chosen slot is the basket of an atom whose
\* operands are all data, the atom is invoked and writes the result slot.
Invoke(objs, r, bk) ==
    LET o    == objs[r.bs[bk + 1].ob]
        kids == r.bs[bk + 1].kids
        d    == AtomApply(o.lambda.v, kids)
    IN  IF r.ok /\ o.lambda.some /\ ~IsDtzd(SlotOf(kids, Phi)) /\ Pending(o.lambda.v, kids) = << >>
        THEN IF d.ok THEN Moved(SetKid(r.bs, bk, Phi, Dtzd(d.d))) ELSE Fail(r.bs, d.err)
        ELSE r

RECURSIVE WaitChain(_, _, _)
\* The slots on the chain of Wait that starts at a slot.
WaitChain(bs, slot, seen) ==
    LET k == KidAt(bs, slot[1], slot[2])
    IN  IF slot \in seen THEN seen
        ELSE IF k.kind = "Wait" THEN WaitChain(bs, << k.bk, k.loc >>, seen \cup { slot })
        ELSE seen \cup { slot }

\* Step 2a: of the slots the root depends on through the chain of Wait from
\* the result of basket 0 and that are not data, one of the lowest basket (the
\* first in the order of the printed Loc).
ChooseSlot(bs) ==
    LET open == { s \in WaitChain(bs, << 0, Phi >>, {}) : ~IsDtzd(KidAt(bs, s[1], s[2])) }
    IN  CHOOSE s \in open : \A t \in open :
            \/ s[1] < t[1]
            \/ s[1] = t[1] /\ (s[2] = t[2] \/ StrLess(LocToString(s[2]), LocToString(t[2])))

\* A full sweep that never comes within the tick count.
StuckLimitBeyondBudget(bs) == MaxCycles + 2

\* The no-progress ticks that make a full sweep: one for every slot of the
\* arena.
StuckLimit(bs) == SlotCount(bs)

\* The snapshot LogSnapshots emits: the baskets of the arena, printed.
Snapshot(bs) == [i \in 1..Len(bs) |-> BasketToString(bs[i])]

\* The table of objects of a program: object n is the n-th of the sequence,
\* from 0.
ObjectTable(decls) == [n \in 0..(Len(decls) - 1) |-> decls[n + 1]]

\* nu n as a locator.
Ref(n) == << Obj(n) >>

\* An object whose result is object n: [[ phi |-> nu n(pi) ]].
Alias(n) == ObjectWith(ObjectOpen, Phi, Ref(n), FALSE)

\* An atom with rho and argument 0.
Binary(name, rho, arg) ==
    ObjectWith(ObjectWith(ObjectAtomic(name), Rho, rho, FALSE), Attr(0), arg, FALSE)

\* bool-if with its predicate and its two branches.
Branch(rho, then, else) == ObjectWith(Binary(BoolIf, rho, then), Attr(1), else, FALSE)

\* Scenario Constant: nu0 |-> [[ phi |-> nu1(pi) ]], nu1 |-> [[ Delta |-> 0x0054 ]].
Constant == ObjectTable(<< Alias(1), ObjectDataic(84) >>)

\* Scenario Addition: int-add of 0x0003 and 0x0002.
Addition == ObjectTable(<< Alias(1), Binary(IntAdd, Ref(2), Ref(3)), ObjectDataic(3), ObjectDataic(2) >>)

\* Scenario Subtraction: int-sub of 0x000A and 0x0004.
Subtraction == ObjectTable(<< Alias(1), Binary(IntSub, Ref(2), Ref(3)), ObjectDataic(10), ObjectDataic(4) >>)

\* Scenario Branching: bool-if with the given predicate, a data branch and a
\* branch that divides by zero.
Branching(pred, then, else) ==
    ObjectTable(<< Alias(1), Branch(Ref(2), Ref(then), Ref(else)), ObjectDataic(pred),
                   ObjectDataic(7), Binary(IntDiv, Ref(3), Ref(5)), ObjectDataic(0) >>)
BranchTaken == Branching(1, 3, 4)
BranchNotTaken == Branching(0, 4, 3)
BranchPrograms == { BranchTaken, BranchNotTaken }

\* A sum of a product and a negated comparison: atoms that call atoms.
Nested ==
    ObjectTable(<< Alias(1), Binary(IntAdd, Ref(2), Ref(3)),
                   Binary(IntTimes, Ref(5), Ref(6)),
                   ObjectWith(ObjectAtomic(IntNeg), Rho, Ref(4), FALSE),
                   Binary(IntLess, Ref(5), Ref(6)), ObjectDataic(-3), ObjectDataic(4) >>)

\* An atom whose operand is a path to an attribute of its parent.
PathToParent ==
    ObjectTable(<< ObjectWith(Alias(1), Attr(0), Ref(2), FALSE),
                   ObjectWith(ObjectAtomic(IntNeg), Rho, << Pi, Attr(0) >>, FALSE),
                   ObjectDataic(5) >>)

\* The same through an object referred to with the xi binding.
PathThroughXi ==
    ObjectTable(<< ObjectWith(Alias(1), Attr(0), Ref(3), FALSE),
                   ObjectWith(ObjectOpen, Phi, Ref(2), TRUE),
                   ObjectWith(ObjectAtomic(IntNeg), Rho, << Pi, Attr(0) >>, FALSE),
                   ObjectDataic(5) >>)

\* A path that ends at a data slot.
PathToData ==
    ObjectTable(<< ObjectWith(ObjectDataic(9), Phi, Ref(1), FALSE),
                   ObjectWith(ObjectOpen, Phi, << Sigma, Delta >>, FALSE) >>)

\* A division by zero that is forced.
DivisionByZero ==
    ObjectTable(<< Alias(1), Binary(IntDiv, Ref(2), Ref(3)), ObjectDataic(7), ObjectDataic(0) >>)

\* An object with no result, and a reference out of the table.
NoResultSlot == ObjectTable(<< Alias(1), ObjectWith(ObjectOpen, Attr(0), Ref(0), FALSE) >>)
OutOfRange == ObjectTable(<< Alias(9) >>)

\* Cyclic waits: the root waits for itself; two baskets wait for each other;
\* an atom waits for the slot that waits for the atom.
SelfCycle == ObjectTable(<< ObjectWith(ObjectOpen, Phi, << Rho, Phi >>, FALSE) >>)
TwoCycle == ObjectTable(<< Alias(1), ObjectWith(ObjectOpen, Phi, << Rho, Phi >>, FALSE) >>)
AtomCycle ==
    ObjectTable(<< Alias(1), ObjectWith(ObjectAtomic(IntNeg), Rho, << Root, Phi >>, FALSE) >>)

Programs ==
    { Constant, Addition, Subtraction, BranchTaken, BranchNotTaken, Nested, PathToParent,
      PathThroughXi, PathToData, DivisionByZero, NoResultSlot, OutOfRange, SelfCycle, TwoCycle,
      AtomCycle }

\* The engine is not part of the behaviour.
EmuOff ==
    /\ epc = "off"
    /\ objects = EmptyMap
    /\ opts = {}
    /\ baskets = << >>
    /\ cycles = 0
    /\ target = NoTarget
    /\ idle = 0
    /\ elog = << >>
    /\ eres = NoResult

\* Emu::from_str: the table of objects of a program, no option set.
EmuInit ==
    /\ epc = "ready"
    /\ objects \in Programs
    /\ opts = {}
    /\ baskets = << >>
    /\ cycles = 0
    /\ target = NoTarget
    /\ idle = 0
    /\ elog = << >>
    /\ eres = NoResult

\* Emu::opt(o).
EmuOpt ==
    /\ epc = "ready"
    /\ \E o \in Opts \ opts : opts' = opts \cup { o }
    /\ UNCHANGED <<epc, objects, baskets, cycles, target, idle, elog, eres>>
    /\ UNCHANGED <<locVars, basketVars, objectVars>>

\* dataize(), step 1: basket 0 is allocated.
Dataize ==
    /\ epc = "ready"
    /\ epc' = "running"
    /\ baskets' = << RootBasket(objects) >>
    /\ UNCHANGED <<objects, opts, cycles, target, idle, elog, eres>>
    /\ UNCHANGED <<locVars, basketVars, objectVars>>

\* dataize(), step 2: one tick of the scheduler, and step 3: the return.
Tick ==
    /\ epc = "running"
    /\ cycles <= MaxCycles
    /\ LET slot == IF target # NoTarget THEN target ELSE ChooseSlot(baskets)
           r    == Invoke(objects, Advance(objects, baskets, slot[1], slot[2]), slot[1])
           n    == IF r.progress THEN 0 ELSE idle + 1
           root == KidAt(r.bs, 0, Phi)
       IN  /\ baskets' = r.bs
           /\ target' = r.target
           /\ idle' = n
           /\ cycles' = cycles + 1
           /\ elog' = IF LogSnapshots \in opts THEN Snapshot(r.bs) ELSE elog
           /\ epc' = IF ~r.ok THEN "failed"
                     ELSE IF StopWhenStuck \in opts /\ n >= StuckLimit(r.bs) THEN "stuck"
                     ELSE IF StopWhenTooManyCycles \in opts /\ cycles + 1 > MaxCycles THEN "toomany"
                     ELSE IF IsDtzd(root) THEN "done"
                     ELSE "running"
           /\ eres' = IF ~r.ok THEN [ok |-> FALSE, err |-> r.err, cycles |-> cycles + 1]
                      ELSE IF StopWhenStuck \in opts /\ n >= StuckLimit(r.bs)
                      THEN [ok |-> FALSE, err |-> "stuck", cycles |-> cycles + 1]
                      ELSE IF StopWhenTooManyCycles \in opts /\ cycles + 1 > MaxCycles
                      THEN [ok |-> FALSE, err |-> "too many cycles", cycles |-> cycles + 1]
                      ELSE IF IsDtzd(root) THEN [ok |-> TRUE, d |-> root.d, cycles |-> cycles + 1]
                      ELSE eres
    /\ UNCHANGED <<objects, opts>>
    /\ UNCHANGED <<locVars, basketVars, objectVars>>

\* The declarations of fibo(x), as the text of fibonacci.rs writes them: the
\* object index of each line and the text of its object.  No line declares
\* object 4.
FiboDecls(x) ==
    LET phi    == << "phi" >>
        rho    == << "rho" >>
        alpha0 == << "alpha", "0" >>
        alpha1 == << "alpha", "1" >>
        nu(n)  == << "nu" >> \o IntStr(n)
        up1    == << "pi", ".", "alpha", "0" >>
        up2    == << "pi", ".", "pi", ".", "alpha", "0" >>
        decl(n, entries) == [ob |-> n, text |-> WrittenText(FALSE, entries)]
    IN  << decl(0, << AttrEntry(phi, nu(2), SuffixPi) >>),
           decl(1, << DeltaEntry(DataHex(x)) >>),
           decl(2, << AttrEntry(phi, nu(3), SuffixXi), AttrEntry(alpha0, nu(1), SuffixPi) >>),
           decl(3, << AttrEntry(phi, nu(13), SuffixPi) >>),
           decl(5, << DeltaEntry(DataHex(2)) >>),
           decl(6, << LambdaEntry(IntSub), AttrEntry(rho, up2, << >>),
                      AttrEntry(alpha0, nu(5), SuffixPi) >>),
           decl(7, << DeltaEntry(DataHex(1)) >>),
           decl(8, << LambdaEntry(IntSub), AttrEntry(rho, up2, << >>),
                      AttrEntry(alpha0, nu(7), SuffixPi) >>),
           decl(9, << AttrEntry(phi, nu(3), SuffixXi), AttrEntry(alpha0, nu(8), SuffixPi) >>),
           decl(10, << AttrEntry(phi, nu(3), SuffixXi), AttrEntry(alpha0, nu(6), SuffixPi) >>),
           decl(11, << LambdaEntry(IntAdd), AttrEntry(rho, nu(9), SuffixPi),
                       AttrEntry(alpha0, nu(10), SuffixPi) >>),
           decl(12, << LambdaEntry(IntLess), AttrEntry(rho, up1, << >>),
                       AttrEntry(alpha0, nu(5), SuffixPi) >>),
           decl(13, << LambdaEntry(BoolIf), AttrEntry(rho, nu(12), SuffixPi),
                       AttrEntry(alpha0, nu(7), SuffixPi),
                       AttrEntry(alpha1, nu(11), SuffixPi) >>) >>

\* Emu::from_str: every declaration's object text is parsed into objects[n];
\* an object text that does not parse and an index declared twice are errors.
\* Indices that no line declares stay out of the table.
EmuFromStr(decls) ==
    LET idx  == 1..Len(decls)
        res  == [i \in idx |-> ObjectFromStr(decls[i].text)]
        bad  == { i \in idx : ~res[i].ok }
        dup  == { i \in idx : \E j \in idx : j # i /\ decls[j].ob = decls[i].ob }
    IN  IF bad # {} THEN Failure(res[CHOOSE i \in bad : TRUE].err, << >>)
        ELSE IF dup # {} THEN Failure("duplicate index", << >>)
        ELSE [ok |-> TRUE,
              objs |-> [n \in { decls[i].ob : i \in idx } |->
                           res[CHOOSE i \in idx : decls[i].ob = n].obj]]

\* The inputs of fibo.
FiboInputs == 0..7

\* The objects that the text of fibo(x) declares, object by object.
FiboObjects(x) ==
    LET up1 == << Pi, Attr(0) >>
        up2 == << Pi, Pi, Attr(0) >>
        call(arg) == ObjectWith(ObjectWith(ObjectOpen, Phi, Ref(3), TRUE), Attr(0), Ref(arg), FALSE)
    IN  [n \in (0..13) \ { 4 } |->
            CASE n = 0  -> Alias(2)
              [] n = 1  -> ObjectDataic(x)
              [] n = 2  -> call(1)
              [] n = 3  -> Alias(13)
              [] n = 5  -> ObjectDataic(2)
              [] n = 6  -> Binary(IntSub, up2, Ref(5))
              [] n = 7  -> ObjectDataic(1)
              [] n = 8  -> Binary(IntSub, up2, Ref(7))
              [] n = 9  -> call(8)
              [] n = 10 -> call(6)
              [] n = 11 -> Binary(IntAdd, Ref(9), Ref(10))
              [] n = 12 -> Binary(IntLess, up1, Ref(5))
              [] n = 13 -> Branch(Ref(12), Ref(7), Ref(11))]

\* fibo(x), the parse: the engine holds the objects of the program text.
FiboInit ==
    /\ epc = "ready"
    /\ \E x \in FiboInputs : objects = FiboObjects(x)
    /\ opts = {}
    /\ baskets = << >>
    /\ cycles = 0
    /\ target = NoTarget
    /\ idle = 0
    /\ elog = << >>
    /\ eres = NoResult

\* fibo(x), the three calls of opt, in the order of the code.
FiboOpt ==
    /\ epc = "ready"
    /\ opts # Opts
    /\ opts' = IF LogSnapshots \notin opts THEN opts \cup { LogSnapshots }
               ELSE IF StopWhenTooManyCycles \notin opts THEN opts \cup { StopWhenTooManyCycles }
               ELSE opts \cup { StopWhenStuck }
    /\ UNCHANGED <<epc, objects, baskets, cycles, target, idle, elog, eres>>
    /\ UNCHANGED <<locVars, basketVars, objectVars>>

\* fibo(x), the call of dataize() once the options are set.
FiboDataize == opts = Opts /\ Dataize

-----------------------------------------------------------------------------
(* The specifications.                                                     *)

NextLoc == LocParse \/ LocPrint \/ LocReparse

InitLoc == LocInit /\ BasketOff /\ ObjectOff /\ EmuOff

SpecLoc == InitLoc /\ [][NextLoc]_vars

NextBasket == BasketPut \/ BasketPrint \/ BasketParse \/ BasketReprint

InitBasket == BasketInit /\ LocOff /\ ObjectOff /\ EmuOff

SpecBasket == InitBasket /\ [][NextBasket]_vars

NextObject ==
    \/ ObjOpen \/ ObjDataic \/ ObjAtomic \/ ObjPush \/ ObjWith \/ ObjAsConstant
    \/ ObjPrint \/ ObjWriteEntry \/ ObjWriteDone \/ ObjParse \/ ObjReprint

InitObject == ObjectInit /\ LocOff /\ BasketOff /\ EmuOff

SpecObject == InitObject /\ [][NextObject]_vars

NextPrint == NextBasket \/ NextObject

InitPrint == InitBasket \/ InitObject

\* Baskets and objects, printed and parsed.
SpecPrint == InitPrint /\ [][NextPrint]_vars

NextEmu == EmuOpt \/ Dataize \/ Tick

InitEmu == EmuInit /\ LocOff /\ BasketOff /\ ObjectOff

\* A step of Tick, told by what it does to the tick count: Tick is the only
\* action that changes cycles, and it can be taken in every running state
\* below the cap.
TickTaken == epc = "running" /\ cycles <= MaxCycles /\ cycles' = cycles + 1

\* The loop of dataize() goes on until it returns: a tick that can be taken
\* is taken.
SpecEmu == InitEmu /\ [][NextEmu]_vars /\ WF_cycles(TickTaken)

NextBasketText == BasketParse \/ BasketReprint

InitBasketText == BasketTextInit /\ LocOff /\ ObjectOff /\ EmuOff

\* Basket texts written by hand, parsed.
SpecBasketText == InitBasketText /\ [][NextBasketText]_vars

NextObjectText == ObjParse \/ ObjReprint

InitObjectText == ObjectTextInit /\ LocOff /\ BasketOff /\ EmuOff

\* Object texts written by hand, parsed.
SpecObjectText == InitObjectText /\ [][NextObjectText]_vars

NextFibo == FiboOpt \/ FiboDataize \/ Tick

InitFibo == FiboInit /\ LocOff /\ BasketOff /\ ObjectOff

\* The runs of fibo(x).
SpecFibo == InitFibo /\ [][NextFibo]_vars /\ WF_cycles(TickTaken)

-----------------------------------------------------------------------------
(* Claims about Loc.                                                       *)

\* The digits of an argument or object form, without its prefix.
FormDigits(t) == IF Head(t) \in { "alpha", "nu" } THEN Tail(t) ELSE t

\* A run of digits without its leading zeros (one digit at least).
Normal(ds) == IF StripZeros(ds) = << >> THEN << "0" >> ELSE StripZeros(ds)

\* The symbolic form of the meaning the Loc table gives to a text.
Canonical(t) ==
    CASE t \in { << "Phi" >>, << "Q" >> }   -> << "Phi" >>
      [] t \in { << "rho" >>, << "^" >> }   -> << "rho" >>
      [] t \in { << "Delta" >>, << "D" >> } -> << "Delta" >>
      [] t \in { << "phi" >>, << "@" >> }   -> << "phi" >>
      [] t \in { << "pi" >>, << "P" >> }    -> << "pi" >>
      [] t \in { << "sigma" >>, << "&" >> } -> << "sigma" >>
      [] t \in ArgTexts                     -> << "alpha" >> \o Normal(FormDigits(t))
      [] t \in ObjTexts                     -> << "nu" >> \o Normal(FormDigits(t))

\* What C5 says of one text: it parses, prints in the symbolic form and parses
\* again to the same Loc.
LocRoundTrip ==
    /\ lpc # "text" => lres.ok
    /\ lpc \in { "printed", "reparsed" } => lprinted = Canonical(ltext)
    /\ lpc = "reparsed" => lres2.ok /\ lres2.loc = lres.loc

FitsAttr(t) == t \in ArgTexts => RadixValue(FormDigits(t), 10, 0) <= 127

-----------------------------------------------------------------------------
(* Claims about Basket.                                                    *)

\* C1 as stated: the text printed for a basket parses, and the parsed basket
\* prints to exactly the same text.
C1_BasketRoundTrip ==
    /\ bpc # "failed"
    /\ bpc = "reprinted" => btext2 = btext

-----------------------------------------------------------------------------
(* Claims about Object.                                                    *)

\* C2 as stated: the text printed for an object built with the public
\* operations parses, and the parsed object prints to exactly the same text.
C2_ObjectRoundTrip ==
    osrc = "built" =>
        /\ opc # "failed"
        /\ opc = "reprinted" => otext2 = otext

\* The attribute entry of a written text with exactly one entry, which has a
\* suffix, once from_str has run on it.
SuffixCase ==
    /\ osrc = "written"
    /\ opc \in { "parsed", "failed", "reprinted" }
    /\ Len(oentries) = 1
    /\ oentries[1].kind = "attr"
    /\ oentries[1].suffix # << >>

\* C4 as stated: an entry a |-> L(pi) parses to attribute a bound to exactly
\* the locator L with xi = false, and a |-> L(xi) to exactly L with xi = true.
C4_SuffixHandling ==
    SuffixCase =>
        LET e == oentries[1]
            a == LocFromStr(e.attr).loc
        IN  /\ ores.ok
            /\ DOMAIN ores.obj.attrs = { a }
            /\ ores.obj.attrs[a] =
                   [locator |-> LocatorFromStr(e.body).locator, xi |-> e.suffix = SuffixXi]

\* C6: neither an object built with the public operations nor a parsed
\* object has both delta and lambda set.
C6_DeltaLambdaExclusive ==
    /\ ~(object.delta.some /\ object.lambda.some)
    /\ ores.ok => ~(ores.obj.delta.some /\ ores.obj.lambda.some)

\* A text with a delta entry and then a lambda entry was parsed.
C6_Witness ==
    /\ opc = "parsed"
    /\ Len(oentries) = 2
    /\ oentries[1].kind = "delta"
    /\ oentries[2].kind = "lambda"
    /\ ores.obj.lambda.some

-----------------------------------------------------------------------------
(* Claims about the printed order.                                         *)

\* The entries of a printed basket, after its ob and psi.
BasketEntries(t) ==
    LET parts == TrimmedParts(SubSeq(t, 2, Len(t) - 1), ",")
    IN  SubSeq(parts, 3, Len(parts))

\* The entries of a printed object.
ObjectEntries(t) ==
    LET body == SubSeq(t, 2, Len(t) - 1)
        rest == IF StartsWith(body, << "!", " " >>) THEN Skip(body, 2) ELSE body
    IN  IF rest = << >> THEN << >> ELSE TrimmedParts(rest, ",")

Arrows == { "->", "->>", "->>>", "|->" }

\* The key of a printed entry: its text before the arrow.
KeyText(e) ==
    LET i == CHOOSE k \in 1..Len(e) : e[k] \in Arrows /\ \A j \in 1..(k - 1) : e[j] \notin Arrows
    IN  SubSeq(e, 1, i - 1)

\* The printed texts of the state, as their sequences of entries.
PrintedEntries ==
    (IF bpc \in { "printed", "parsed", "failed", "reprinted" } THEN { BasketEntries(btext) } ELSE {})
    \cup (IF bpc = "reprinted" THEN { BasketEntries(btext2) } ELSE {})
    \cup (IF osrc = "built" /\ opc \in { "text", "parsed", "failed", "reprinted" }
          THEN { ObjectEntries(otext) } ELSE {})
    \cup (IF opc = "reprinted" THEN { ObjectEntries(otext2) } ELSE {})

\* The entries keyed by a Loc: all but the lambda entry of an object.
IsLocEntry(e) == KeyText(e) # << "lambda" >>

\* C3 as stated: of any two entries of a printed basket or object, the one
\* whose Loc text sorts first is printed first.
C3_OrderByLoc ==
    \A es \in PrintedEntries : \A i, j \in 1..Len(es) :
        (i < j /\ IsLocEntry(es[i]) /\ IsLocEntry(es[j]))
            => StrLess(KeyText(es[i]), KeyText(es[j]))

\* C3, amended: the entries of a printed basket or object are in ascending
\* byte order of their whole texts (the key, the arrow, the kid or locator);
\* that is the order of the Loc texts except where the key of the later entry
\* is the beginning of the key of the earlier one (argument 12 is printed
\* before argument 1).
C3_OrderByEntry ==
    \A es \in PrintedEntries : \A i, j \in 1..Len(es) :
        i < j =>
            /\ StrLess(es[i], es[j])
            /\ IsLocEntry(es[i]) /\ IsLocEntry(es[j]) =>
                   \/ StrLess(KeyText(es[i]), KeyText(es[j]))
                   \/ StartsWith(KeyText(es[i]), KeyText(es[j]))

\* A basket with slots keyed by argument 1 and argument 12 was printed.
C3_Witness ==
    /\ bpc = "printed"
    /\ DOMAIN basket.kids = { Attr(1), Attr(12) }
    /\ KeyText(BasketEntries(btext)[1]) = << "alpha", "1", "2" >>

-----------------------------------------------------------------------------
(* Claims about the engine.                                                *)

\* The place of a slot state in the order Rqtd, Need, Wait, Dtzd.
Rank(kid) ==
    CASE kid.kind = "Rqtd" -> 0
      [] kid.kind = "Need" -> 1
      [] kid.kind = "Wait" -> 2
      [] kid.kind = "Dtzd" -> 3
      [] kid.kind = "Empt" -> -1

\* A slot is unchanged or has moved forward.
Forward(old, new) ==
    \/ new = old
    \/ old.kind # "Empt" /\ new.kind # "Empt" /\ Rank(old) < Rank(new)

\* One step keeps every basket at its index, with its ob, its psi and its
\* slots, each unchanged or moved forward.
ArenaStable ==
    /\ Len(baskets') >= Len(baskets)
    /\ \A i \in 1..Len(baskets) :
           /\ baskets'[i].ob = baskets[i].ob
           /\ baskets'[i].psi = baskets[i].psi
           /\ DOMAIN baskets[i].kids \subseteq DOMAIN baskets'[i].kids
           /\ \A l \in DOMAIN baskets[i].kids : Forward(baskets[i].kids[l], baskets'[i].kids[l])

\* C7: during one dataize() the arena only grows; a basket keeps its index,
\* its ob and its psi, and each of its slots is unchanged or has moved forward
\* in the order Rqtd, Need, Wait, Dtzd (a Dtzd value never changes).
C7_ArenaStability == [][ArenaStable]_vars

\* A run that allocated four baskets and moved slots up to Dtzd has returned.
C7_Witness ==
    /\ epc = "done"
    /\ Len(baskets) >= 4
    /\ \A i \in 1..Len(baskets) : IsDtzd(baskets[i].kids[Phi])

\* The slot a slot depends on: the slot it waits for, or the first operand,
\* not yet data, of the atom whose result it is.
NextSlot(objs, bs, slot) ==
    LET k == KidAt(bs, slot[1], slot[2])
        p == Pending(objs[bs[slot[1] + 1].ob].lambda.v, bs[slot[1] + 1].kids)
    IN  IF k.kind = "Wait" THEN << k.bk, k.loc >>
        ELSE IF k.kind = "Rqtd" /\ IsAtomSlot(objs, bs, slot[1], slot[2]) /\ p # << >>
        THEN << slot[1], Head(p) >>
        ELSE NoTarget

RECURSIVE Loops(_, _, _, _)
\* The chain of dependencies from a slot comes back to a slot of the chain.
Loops(objs, bs, slot, seen) ==
    IF slot = NoTarget THEN FALSE
    ELSE IF slot \in seen THEN TRUE
    ELSE Loops(objs, bs, NextSlot(objs, bs, slot), seen \cup { slot })

\* The result of basket 0 depends on a cycle of waiting slots.
CyclicWait == baskets # << >> /\ Loops(objects, baskets, << 0, Phi >>, {})

\* C8: with StopWhenStuck set, a run whose slots form a cyclic Wait
\* dependency eventually stops with the stuck failure, and the stuck failure
\* comes after a full sweep (as many ticks in a row as the arena has slots)
\* that changed no slot and allocated no basket.
C8_StagnationReported ==
    /\ [](epc = "stuck" => /\ StopWhenStuck \in opts
                           /\ idle >= SlotCount(baskets)
                           /\ eres = [ok |-> FALSE, err |-> "stuck", cycles |-> cycles])
    /\ (epc = "running" /\ StopWhenStuck \in opts /\ CyclicWait) ~> (epc = "stuck")

\* Two baskets that wait for each other were reported stuck.
C8_Witness ==
    /\ epc = "stuck"
    /\ Len(baskets) = 2
    /\ CyclicWait
    /\ idle = SlotCount(baskets)

BranchBaskets == { i \in 1..Len(baskets) : objects[baskets[i].ob].lambda = Some(BoolIf) }

\* In a basket of bool-if no branch is advanced before the predicate is data,
\* the branch that is not chosen stays requested, and the result is the data
\* of the chosen branch.
OnlyChosen(kids) ==
    LET p == kids[Rho]
    IN  /\ ~IsDtzd(p) => kids[Attr(0)] = Rqtd /\ kids[Attr(1)] = Rqtd /\ ~IsDtzd(kids[Phi])
        /\ IsDtzd(p) /\ p.d # 0 =>
               /\ kids[Attr(1)] = Rqtd
               /\ IsDtzd(kids[Phi]) => kids[Phi] = kids[Attr(0)]
        /\ IsDtzd(p) /\ p.d = 0 =>
               /\ kids[Attr(0)] = Rqtd
               /\ IsDtzd(kids[Phi]) => kids[Phi] = kids[Attr(1)]

\* C10: bool-if returns the data of argument 0 when the predicate is not zero
\* and of argument 1 when it is zero; the slot of the other argument is never
\* advanced, so a division by zero in it does not make dataize() fail.
C10_OnlyChosenBranch ==
    /\ \A i \in BranchBaskets : OnlyChosen(baskets[i].kids)
    /\ objects \in BranchPrograms => epc # "failed"
    /\ objects \in BranchPrograms /\ epc = "done" => eres.d = 7

\* The predicate was zero: argument 1 was returned and argument 0, which
\* divides by zero, is still requested.
C10_Witness ==
    /\ epc = "done"
    /\ objects = BranchNotTaken
    /\ eres.d = 7
    /\ baskets[2].kids[Attr(0)] = Rqtd
    /\ IsDtzd(baskets[2].kids[Attr(1)])

-----------------------------------------------------------------------------
(* Claims about the Fibonacci program.                                     *)

RECURSIVE F(_)
\* The Fibonacci numbers of the program: 1 below 2, the sum of the two
\* before otherwise.
F(x) == IF x < 2 THEN 1 ELSE F(x - 1) + F(x - 2)

\* The input of the run: the data of object 1.
FiboInput == objects[1].delta.v

\* The text of the program parses to the objects of the run, and its
\* declarations lie between object 0 and object 13.
FiboParses ==
    LET r == EmuFromStr(FiboDecls(FiboInput))
    IN  /\ r.ok
        /\ r.objs = objects
        /\ DOMAIN r.objs \subseteq 0..13
        /\ { 0, 13 } \subseteq DOMAIN r.objs

-----------------------------------------------------------------------------
(* Claims about the failures of Basket::from_str.                          *)

\* The texts with the defect d, and the texts without defect.
TextsWith(d) == { BasketWritten(w) : w \in { v \in BasketWritings : d \in Defects(v) } }
DamagedTexts == { BasketWritten(w) : w \in { v \in BasketWritings : Defects(v) # {} } }
Unbracketed == TextsWith("brackets")

\* C12: Basket::from_str returns an error value for a text without
\* bracketed body, without parent part, with an object or parent number that
\* is no number, or with an entry that has an unknown marker, data that are
\* not hexadecimal, a wait without dot or with a basket that is no number or
\* with an unknown loc, a need without semicolon or with an object or parent
\* that is no number, or a key that is no Loc; for a text without brackets
\* the error carries the text.  A run that returns (bpc is "parsed" or
\* "failed") has not panicked.
C12_BasketFailures ==
    /\ (bpc # "printed" /\ btext \in DamagedTexts) => bpc = "failed" /\ ~bres.ok
    /\ (bpc # "printed" /\ btext \in Unbracketed) =>
          bres.err = "Can't parse the basket" /\ bres.text = btext

\* A damaged entry behind a sound one has been refused, and so has a text
\* without brackets.
C12_Witness ==
    /\ bpc = "failed"
    /\ btext \in TextsWith("wait loc") \ Unbracketed
    /\ bres.err = "Can't parse wait loc"
    /\ Len(Split(btext, ",")) = 4

-----------------------------------------------------------------------------
(* Claims about the failures of Object::from_str.                          *)

\* The text has no opening delimiter followed by a closing one.
NoDelimiters(t) ==
    ~ \E i, j \in 1..Len(t) : i < j /\ t[i] = "[[" /\ t[j] = "]]"

\* The entries that are written with a defect.
DamagedAt == { i \in 1..Len(oentries) : oentries[i].kind = "raw" }

\* The lambda and delta entries of what is written.
Replacing == { i \in 1..Len(oentries) : oentries[i].kind \in { "lambda", "delta" } }

\* C13: Object::from_str returns an error value for a text without the
\* delimiters and for a text with an entry that does not split in two at
\* the arrow, has an empty name, a delta that is not hexadecimal, a name
\* that is no Loc or a lambda name outside the seven; a text without defect
\* whose last lambda or delta entry is a lambda entry with one of the seven
\* names parses, and the parsed object has that name as its lambda.
C13_ObjectFailures ==
    /\ (opc # "text" /\ (NoDelimiters(otext) \/ DamagedAt # {})) => opc = "failed" /\ ~ores.ok
    /\ (opc # "text" /\ ~NoDelimiters(otext) /\ DamagedAt = {}) =>
          /\ opc # "failed" /\ ores.ok
          /\ \A i \in Replacing :
                (oentries[i].kind = "lambda" /\ \A j \in Replacing : j <= i) =>
                    oentries[i].name \in AtomNames /\ ores.obj.lambda = Some(oentries[i].name)

\* A lambda entry with an unknown name, written behind a sound entry between
\* the delimiters, has been refused.
C13_Witness ==
    /\ opc = "failed"
    /\ ~NoDelimiters(otext)
    /\ Len(oentries) = 2
    /\ oentries[2].kind = "raw" /\ oentries[2].defect = "lambda"
    /\ ores.err = "Unknown lambda"

-----------------------------------------------------------------------------
(* Claims about the entries that Object::from_str keeps.                   *)

\* The place of the last lambda or delta entry of what is written, 0 if
\* there is none.
LastReplacing == IF Replacing = {} THEN 0 ELSE CHOOSE i \in Replacing : \A j \in Replacing : j <= i

\* The attribute entries written behind the last lambda or delta entry.
Following == { i \in (LastReplacing + 1)..Len(oentries) : oentries[i].kind = "attr" }

\* A written text has been parsed.
WrittenParsed == osrc = "written" /\ opc \in { "parsed", "reprinted" }

\* C14: the object parsed from a written text has exactly the attributes of
\* the attribute entries behind the last lambda or delta entry (under one
\* key the last such entry), none of an entry before it, and the lambda or
\* the data of the last lambda or delta entry alone: it is the object that
\* the text without the entries before that entry parses to.
C14_LastEntryReplaces ==
    WrittenParsed =>
        /\ DOMAIN ores.obj.attrs = { LocFromStr(oentries[i].attr).loc : i \in Following }
        /\ LastReplacing = 0 => ores.obj.lambda = None /\ ores.obj.delta = None
        /\ (LastReplacing # 0 /\ oentries[LastReplacing].kind = "lambda") =>
              ores.obj.lambda = Some(oentries[LastReplacing].name) /\ ores.obj.delta = None
        /\ (LastReplacing # 0 /\ oentries[LastReplacing].kind = "delta") =>
              /\ ores.obj.delta = Some(ParseData(oentries[LastReplacing].hex).val)
              /\ ores.obj.lambda = None
        /\ LastReplacing # 0 =>
              ores = ObjectFromStr(WrittenText(obang, SubSeq(oentries, LastReplacing, Len(oentries))))

\* An attribute entry written before a delta entry is absent from the
\* parsed object.
C14_Witness ==
    /\ WrittenParsed
    /\ Len(oentries) = 2
    /\ oentries[1].kind = "attr"
    /\ oentries[2].kind = "delta"
    /\ ores.obj.attrs = EmptyMap
    /\ ores.obj.delta = Some(42)

\* C15: the constant flag of the object parsed from a written text is true
\* exactly when the text has '!' directly behind the opening delimiter or
\* its last lambda or delta entry is a delta entry; the object of a text
\* with a delta entry last and without '!' prints with the mark "! " that
\* the text did not have.
C15_ConstantFlag ==
    LET data == LastReplacing # 0 /\ oentries[LastReplacing].kind = "delta"
    IN  WrittenParsed =>
            /\ obang <=> (Len(otext) >= 2 /\ otext[1] = "[[" /\ otext[2] = "!")
            /\ ores.obj.constant <=> (obang \/ data)
            /\ (opc = "reprinted" /\ data /\ ~obang) =>
                  /\ StartsWith(otext2, << "[[", "!", " " >>)
                  /\ ~StartsWith(otext, << "[[", "!" >>)

\* A text with a delta entry and without '!' has been parsed to a constant
\* object and printed with the mark.
C15_Witness ==
    /\ osrc = "written"
    /\ opc = "reprinted"
    /\ ~obang
    /\ LastReplacing # 0
    /\ oentries[LastReplacing].kind = "delta"
    /\ ores.obj.constant
    /\ StartsWith(otext2, << "[[", "!", " " >>)

====
